---- MODULE Spec2Model ----
(***************************************************************************)
(* The storage adapter (server/storage.ts), its spreadsheet reader/writer  *)
(* (excel-handler, the tail of server/routes.ts) and the REST handlers     *)
(* (server/routes.ts) of the Stitching Unit ERP.                           *)
(*                                                                         *)
(* A spreadsheet file is the sequence of its data rows (the header row is  *)
(* rewritten identically by every write, so it is left implicit); a row is *)
(* a sequence of cells; a cell is the string readExcelFile returns for it  *)
(* (cell.value.toString()), or Null for a cell that holds no value.        *)
(* Amounts are decimal strings of whole numbers, for which the JavaScript  *)
(* arithmetic of the adapter (parseFloat, +, -, toString) is exact.        *)
(***************************************************************************)
EXTENDS Integers, Sequences, FiniteSets, TLC

VARIABLES
    units,       \* data/production_units.xlsx : rows <<id, name, costToDate>>
    expenses,    \* data/expenses.xlsx         : rows <<id, productionUnitId, amount, category>>
    revenues,    \* data/revenues.xlsx         : rows <<id, productionUnitId, amount, category>>
    inventory,   \* data/inventory.xlsx        : rows <<id, name, quantity, unitCost>>
    customers,   \* data/customers.xlsx        : rows <<id, name, phone, email, address, gstin, notes, createdAt>>
    orders,      \* data/orders.xlsx           : rows <<id, orderNumber, customerId, productionUnitId,
                 \*                                     deliveryDate, status, totalAmount, paidAmount, currency>>
    salaries,    \* data/salary_payments.xlsx : rows <<id, employeeName, employeeId, productionUnitId, amount,
                 \*                                     paymentDate, paymentMethod, notes, month, year>>
    maintenance, \* data/maintenance_records.xlsx : rows <<id, productionUnitId, machineId, machineName,
                 \*     maintenanceType, description, cost, date, nextMaintenanceDate, performedBy, notes>>
    users,       \* data/users.xlsx : rows <<id, username, password, name, role>>; <<>> also
                 \*                   stands for the file that does not exist yet
    ctr,         \* the in-memory counters unitNextId, expenseNextId, ... of ExcelStorage
    calls,       \* the createExpense calls in flight: for each, the await it has reached and its locals
    gst,         \* a GST calculation: the amount entered (paise), the rate, the two-decimal results
    origin       \* history: for each row of revenues, the orderId createRevenue was called with (0: none)

vars == <<units, expenses, revenues, inventory, customers, orders, salaries, maintenance,
          users, ctr, calls, gst, origin>>

(***************************************************************************)
(* Bounds of the model.                                                    *)
(***************************************************************************)
MaxId == 2      \* no counter is advanced beyond MaxId + 1
MaxNum == 10    \* numbers whose decimal string the model can format and parse

(***************************************************************************)
(* JavaScript values.                                                      *)
(***************************************************************************)
Null == "<null>"                 \* null / undefined; also a worksheet cell without a value
DateStr == "<iso-date>"          \* a valid Date, and its toISOString() text (all valid dates alike)
InvalidDate == "<invalid-date>"  \* the Date object new Date(s) yields for a string that is no date
NaN == 0 - (MaxNum + MaxNum + 1) \* NaN: never > 0, never >= a counter, not the value of any string

Digits == <<"0", "1", "2", "3", "4", "5", "6", "7", "8", "9">>

RECURSIVE NatToString(_)
NatToString(n) ==
    IF n < 10 THEN Digits[n + 1]
    ELSE NatToString(n \div 10) \o Digits[(n % 10) + 1]

NumRange == (0 - MaxNum) .. MaxNum

NumStr == [n \in NumRange |-> IF n < 0 THEN "-" \o NatToString(0 - n) ELSE NatToString(n)]

OutOfRange == "<out-of-range>"    \* the text of a number beyond MaxNum: no state holding it is explored

\* Number.prototype.toString
toString(n) == IF n = NaN THEN "NaN" ELSE IF n \in NumRange THEN NumStr[n] ELSE OutOfRange

IsNumeric(s) == \E n \in NumRange : NumStr[n] = s

\* parseFloat / parseInt on the strings of the model: the number a decimal
\* string denotes, NaN for any other string (and for undefined)
parseFloat(s) == IF IsNumeric(s) THEN CHOOSE n \in NumRange : NumStr[n] = s ELSE NaN

parseInt(s) == parseFloat(s)

\* a + b and a - b on numbers
Plus(a, b) == IF a = NaN \/ b = NaN THEN NaN ELSE a + b

Minus(a, b) == IF a = NaN \/ b = NaN THEN NaN ELSE a - b

\* v || d on strings: the empty string, null and undefined are falsy
Or(v, d) == IF v = Null \/ v = "" THEN d ELSE v

Truthy(v) == v # Null /\ v # ""

\* new Date(s) for a cell string s. An ISO text yields that date; V8 also reads a
\* bare small number ("0", "5", "7") as a date; a word ("pending", "INR") is no date.
NewDate(s) == IF s = DateStr \/ IsNumeric(s) THEN DateStr ELSE InvalidDate

\* d instanceof Date ? d.toISOString() : d  -- toISOString throws on an Invalid Date
DateThrows(d) == d = InvalidDate

(***************************************************************************)
(* excel-handler                                                           *)
(***************************************************************************)
NonEmptyCell(c) == c # Null

\* row.eachCell visits only the cells that hold a value (includeEmpty is not
\* set), so the values right of an empty cell move left in the row returned.
HasValues(row) == \E j \in 1 .. Len(row) : NonEmptyCell(row[j])

readExcelFile(file) ==
    LET rows == SelectSeq(file, HasValues)
    IN  [i \in 1 .. Len(rows) |-> SelectSeq(rows[i], NonEmptyCell)]

\* row[j] of a row read: undefined beyond the last cell
Cell(row, j) == IF j <= Len(row) THEN row[j] ELSE Null

\* { ...record, ...updates }
Overlay(record, updates) ==
    [f \in (DOMAIN record) \cup (DOMAIN updates) |->
        IF f \in DOMAIN updates THEN updates[f] ELSE record[f]]

RECURSIVE FindIndex(_, _, _)
\* records.findIndex(r => r.id === id), 1-based; 0 for -1
FindIndex(records, id, i) ==
    IF i > Len(records) THEN 0
    ELSE IF records[i].id = id THEN i
    ELSE FindIndex(records, id, i + 1)

RECURSIVE NextIdAfter(_, _)
\* the loop "if (id >= this.xNextId) this.xNextId = id + 1" over the rows read
NextIdAfter(n, records) ==
    IF records = <<>> THEN n
    ELSE NextIdAfter(IF Head(records).id >= n THEN Head(records).id + 1 ELSE n, Tail(records))

(***************************************************************************)
(* The store: every file, the counters and the history, as one value, so   *)
(* that a storage method is a function from store to store and result.     *)
(***************************************************************************)
Store ==
    [units |-> units, expenses |-> expenses, revenues |-> revenues,
     inventory |-> inventory, customers |-> customers, orders |-> orders,
     salaries |-> salaries, maintenance |-> maintenance, users |-> users,
     ctr |-> ctr, origin |-> origin]

Becomes(st) ==
    /\ units' = st.units
    /\ expenses' = st.expenses
    /\ revenues' = st.revenues
    /\ inventory' = st.inventory
    /\ customers' = st.customers
    /\ orders' = st.orders
    /\ salaries' = st.salaries
    /\ maintenance' = st.maintenance
    /\ users' = st.users
    /\ ctr' = st.ctr
    /\ origin' = st.origin

(***************************************************************************)
(* Production units                                                        *)
(***************************************************************************)
rowToUnit(row) ==
    [id |-> parseInt(Cell(row, 1)), name |-> Cell(row, 2), costToDate |-> Or(Cell(row, 3), "0")]

\* a read that leaves the counter as it is
readProductionUnitsFromExcel_Unreconciled(st) ==
    LET data == readExcelFile(st.units)
    IN  [st |-> st, ret |-> [i \in 1 .. Len(data) |-> rowToUnit(data[i])]]

readProductionUnitsFromExcel(st) ==
    LET data == readExcelFile(st.units)
        read == [i \in 1 .. Len(data) |-> rowToUnit(data[i])]
    IN  [st |-> [st EXCEPT !.ctr.unit = NextIdAfter(@, read)], ret |-> read]

unitToRow(u) == <<toString(u.id), u.name, u.costToDate>>

writeProductionUnitsToExcel(st, us) ==
    [st EXCEPT !.units = [i \in 1 .. Len(us) |-> unitToRow(us[i])]]

createProductionUnit(st, unit) ==
    LET r == readProductionUnitsFromExcel(st)
        newUnit == [id |-> r.st.ctr.unit, name |-> unit.name, costToDate |-> "0"]
        st1 == [r.st EXCEPT !.ctr.unit = @ + 1]
    IN  [st |-> writeProductionUnitsToExcel(st1, Append(r.ret, newUnit)), ret |-> newUnit]

getProductionUnit(st, id) ==
    LET r == readProductionUnitsFromExcel(st)
        i == FindIndex(r.ret, id, 1)
    IN  [st |-> r.st, found |-> i # 0, ret |-> IF i # 0 THEN r.ret[i] ELSE [id |-> 0]]

updateProductionUnit(st, id, updates) ==
    LET r == readProductionUnitsFromExcel(st)
        i == FindIndex(r.ret, id, 1)
    IN  IF i = 0 THEN [st |-> r.st, found |-> FALSE]
        ELSE [st |-> writeProductionUnitsToExcel(r.st, [r.ret EXCEPT ![i] = Overlay(@, updates)]),
              found |-> TRUE]

deleteProductionUnit(st, id) ==
    LET r == readProductionUnitsFromExcel(st)
        filtered == SelectSeq(r.ret, LAMBDA u : u.id # id)
    IN  IF Len(filtered) = Len(r.ret) THEN [st |-> r.st, found |-> FALSE]
        ELSE [st |-> writeProductionUnitsToExcel(r.st, filtered), found |-> TRUE]

(***************************************************************************)
(* Expenses                                                                *)
(***************************************************************************)
rowToExpense(row) ==
    [id |-> parseInt(Cell(row, 1)), productionUnitId |-> parseInt(Cell(row, 2)),
     amount |-> Cell(row, 3), category |-> Cell(row, 4)]

readExpensesFromExcel(st) ==
    LET data == readExcelFile(st.expenses)
        read == [i \in 1 .. Len(data) |-> rowToExpense(data[i])]
    IN  [st |-> [st EXCEPT !.ctr.expense = NextIdAfter(@, read)], ret |-> read]

expenseToRow(e) == <<toString(e.id), toString(e.productionUnitId), e.amount, e.category>>

writeExpensesToExcel(st, es) ==
    [st EXCEPT !.expenses = [i \in 1 .. Len(es) |-> expenseToRow(es[i])]]
\* a cost update that leaves every costToDate as it is
addToUnitCost_Skipped(st, unitId, delta) == st

\* the cost update shared by createExpense, updateExpense and deleteExpense:
\* look the unit up and, if it is stored, add delta to its costToDate
addToUnitCost(st, unitId, delta) ==
    LET g == getProductionUnit(st, unitId)
    IN  IF ~g.found THEN g.st
        ELSE updateProductionUnit(g.st, g.ret.id,
                 [costToDate |-> toString(Plus(parseFloat(g.ret.costToDate), delta))]).st

\* the catch block of readExpensesFromExcel: a read that fails is logged and
\* answered with no records; the counter is as it was
readExpensesFailed(st) == [st |-> st, ret |-> <<>>]

\* createExpense after its read returned r
createExpenseFrom(r, expense) ==
    LET newExpense == Overlay(expense, [id |-> r.st.ctr.expense])
        st1 == [r.st EXCEPT !.ctr.expense = @ + 1]
        st2 == writeExpensesToExcel(st1, Append(r.ret, newExpense))
    IN  [st |-> addToUnitCost(st2, expense.productionUnitId, parseFloat(expense.amount)),
         ret |-> newExpense]

createExpense(st, expense) == createExpenseFrom(readExpensesFromExcel(st), expense)

\* an updateExpense that corrects the cost of the unit the updated expense names
updateExpense_NewUnit(st, id, updates) ==
    LET r == readExpensesFromExcel(st)
        i == FindIndex(r.ret, id, 1)
    IN  IF i = 0 THEN [st |-> r.st, found |-> FALSE]
        ELSE LET oldExpense == r.ret[i]
                 st1 == writeExpensesToExcel(r.st, [r.ret EXCEPT ![i] = Overlay(@, updates)])
             IN  IF "amount" \in DOMAIN updates /\ Truthy(updates.amount)
                        /\ oldExpense.amount # updates.amount
                 THEN [st |-> addToUnitCost(st1, Overlay(oldExpense, updates).productionUnitId,
                                  Minus(parseFloat(updates.amount), parseFloat(oldExpense.amount))),
                       found |-> TRUE]
                 ELSE [st |-> st1, found |-> TRUE]

updateExpense(st, id, updates) ==
    LET r == readExpensesFromExcel(st)
        i == FindIndex(r.ret, id, 1)
    IN  IF i = 0 THEN [st |-> r.st, found |-> FALSE]
        ELSE LET oldExpense == r.ret[i]
                 st1 == writeExpensesToExcel(r.st, [r.ret EXCEPT ![i] = Overlay(@, updates)])
             IN  IF "amount" \in DOMAIN updates /\ Truthy(updates.amount)
                        /\ oldExpense.amount # updates.amount
                 THEN [st |-> addToUnitCost(st1, oldExpense.productionUnitId,
                                  Minus(parseFloat(updates.amount), parseFloat(oldExpense.amount))),
                       found |-> TRUE]
                 ELSE [st |-> st1, found |-> TRUE]

\* a deleteExpense that leaves the cost of the unit as it is
deleteExpense_NoRefund(st, id) ==
    LET r == readExpensesFromExcel(st)
        i == FindIndex(r.ret, id, 1)
    IN  IF i = 0 THEN [st |-> r.st, found |-> FALSE]
        ELSE [st |-> writeExpensesToExcel(r.st, SelectSeq(r.ret, LAMBDA e : e.id # id)),
              found |-> TRUE]

deleteExpense(st, id) ==
    LET r == readExpensesFromExcel(st)
        i == FindIndex(r.ret, id, 1)
    IN  IF i = 0 THEN [st |-> r.st, found |-> FALSE]
        ELSE LET st1 == writeExpensesToExcel(r.st, SelectSeq(r.ret, LAMBDA e : e.id # id))
             IN  [st |-> addToUnitCost(st1, r.ret[i].productionUnitId,
                              Minus(0, parseFloat(r.ret[i].amount))),
                  found |-> TRUE]

(***************************************************************************)
(* Revenues                                                                *)
(***************************************************************************)
\* the rows read carry no orderId property: "orderId" is not among the
\* columns readRevenuesFromExcel looks up
rowToRevenue(row) ==
    [id |-> parseInt(Cell(row, 1)), productionUnitId |-> parseInt(Cell(row, 2)),
     amount |-> Cell(row, 3), category |-> Cell(row, 4)]

readRevenuesFromExcel(st) ==
    LET data == readExcelFile(st.revenues)
        read == [i \in 1 .. Len(data) |-> rowToRevenue(data[i])]
    IN  [st |-> [st EXCEPT !.ctr.revenue = NextIdAfter(@, read)], ret |-> read]

\* the headers and rows written end at "currency": orderId is not written
revenueToRow(r) == <<toString(r.id), toString(r.productionUnitId), r.amount, r.category>>

writeRevenuesToExcel(st, rs) ==
    [st EXCEPT !.revenues = [i \in 1 .. Len(rs) |-> revenueToRow(rs[i])]]

\* revenue.orderId of a record in memory: undefined (0) when it has no such property
orderIdOf(r) == IF "orderId" \in DOMAIN r /\ r.orderId # NaN THEN r.orderId ELSE 0

createRevenue(st, revenue) ==
    LET r == readRevenuesFromExcel(st)
        newRevenue == Overlay(revenue, [id |-> r.st.ctr.revenue])
        st1 == [r.st EXCEPT !.ctr.revenue = @ + 1, !.origin = Append(@, orderIdOf(revenue))]
    IN  [st |-> writeRevenuesToExcel(st1, Append(r.ret, newRevenue)), ret |-> newRevenue]

updateRevenue(st, id, updates) ==
    LET r == readRevenuesFromExcel(st)
        i == FindIndex(r.ret, id, 1)
    IN  IF i = 0 THEN [st |-> r.st, found |-> FALSE]
        ELSE [st |-> writeRevenuesToExcel(r.st, [r.ret EXCEPT ![i] = Overlay(@, updates)]),
              found |-> TRUE]

RECURSIVE KeepOthers(_, _, _)
\* the entries of a sequence kept beside records.filter(r => r.id !== id)
KeepOthers(seq, records, id) ==
    IF records = <<>> THEN <<>>
    ELSE (IF Head(records).id # id THEN <<Head(seq)>> ELSE <<>>)
             \o KeepOthers(Tail(seq), Tail(records), id)

deleteRevenue(st, id) ==
    LET r == readRevenuesFromExcel(st)
        filtered == SelectSeq(r.ret, LAMBDA x : x.id # id)
    IN  IF Len(filtered) = Len(r.ret) THEN [st |-> r.st, found |-> FALSE]
        ELSE [st |-> writeRevenuesToExcel(
                         [r.st EXCEPT !.origin = KeepOthers(@, r.ret, id)], filtered),
              found |-> TRUE]

(***************************************************************************)
(* Inventory                                                               *)
(***************************************************************************)
rowToInventoryItem(row) ==
    [id |-> parseInt(Cell(row, 1)), name |-> Cell(row, 2),
     quantity |-> Or(Cell(row, 3), "0"), unitCost |-> Or(Cell(row, 4), "0")]

readInventoryFromExcel(st) ==
    LET data == readExcelFile(st.inventory)
        read == [i \in 1 .. Len(data) |-> rowToInventoryItem(data[i])]
    IN  [st |-> [st EXCEPT !.ctr.inventory = NextIdAfter(@, read)], ret |-> read]

inventoryItemToRow(it) == <<toString(it.id), it.name, it.quantity, it.unitCost>>

writeInventoryToExcel(st, items) ==
    [st EXCEPT !.inventory = [i \in 1 .. Len(items) |-> inventoryItemToRow(items[i])]]

createInventoryItem(st, item) ==
    LET r == readInventoryFromExcel(st)
        newItem == [id |-> r.st.ctr.inventory, name |-> item.name,
                    quantity |-> Or(item.quantity, "0"), unitCost |-> item.unitCost]
        st1 == [r.st EXCEPT !.ctr.inventory = @ + 1]
    IN  [st |-> writeInventoryToExcel(st1, Append(r.ret, newItem)), ret |-> newItem]

updateInventoryItem(st, id, updates) ==
    LET r == readInventoryFromExcel(st)
        i == FindIndex(r.ret, id, 1)
    IN  IF i = 0 THEN [st |-> r.st, found |-> FALSE]
        ELSE [st |-> writeInventoryToExcel(r.st, [r.ret EXCEPT ![i] = Overlay(@, updates)]),
              found |-> TRUE]

deleteInventoryItem(st, id) ==
    LET r == readInventoryFromExcel(st)
        filtered == SelectSeq(r.ret, LAMBDA x : x.id # id)
    IN  IF Len(filtered) = Len(r.ret) THEN [st |-> r.st, found |-> FALSE]
        ELSE [st |-> writeInventoryToExcel(r.st, filtered), found |-> TRUE]

(***************************************************************************)
(* Customers                                                               *)
(***************************************************************************)
rowToCustomer(row) ==
    [id |-> parseInt(Cell(row, 1)), name |-> Cell(row, 2),
     phone |-> Or(Cell(row, 3), Null), email |-> Or(Cell(row, 4), Null),
     address |-> Or(Cell(row, 5), Null), gstin |-> Or(Cell(row, 6), Null),
     notes |-> Or(Cell(row, 7), Null),
     createdAt |-> IF Truthy(Cell(row, 8)) THEN NewDate(Cell(row, 8)) ELSE DateStr]

readCustomersFromExcel(st) ==
    LET data == readExcelFile(st.customers)
        read == [i \in 1 .. Len(data) |-> rowToCustomer(data[i])]
    IN  [st |-> [st EXCEPT !.ctr.customer = NextIdAfter(@, read)], ret |-> read]

customerToRow(c) ==
    <<toString(c.id), c.name, c.phone, c.email, c.address, c.gstin, c.notes, c.createdAt>>

\* threw: some createdAt is an Invalid Date, whose toISOString() throws
writeCustomersToExcel(st, cs) ==
    IF \E i \in 1 .. Len(cs) : DateThrows(cs[i].createdAt)
    THEN [st |-> st, threw |-> TRUE]
    ELSE [st |-> [st EXCEPT !.customers = [i \in 1 .. Len(cs) |-> customerToRow(cs[i])]],
          threw |-> FALSE]

\* the properties a validated body leaves out are undefined
WithDefaults(body, defaults) == Overlay(defaults, body)

CustomerBlank ==
    [name |-> Null, phone |-> Null, email |-> Null, address |-> Null, gstin |-> Null,
     notes |-> Null]

createCustomer(st, customer) ==
    LET r == readCustomersFromExcel(st)
        newCustomer == Overlay(WithDefaults(customer, CustomerBlank),
                               [id |-> r.st.ctr.customer, createdAt |-> DateStr])
        st1 == [r.st EXCEPT !.ctr.customer = @ + 1]
        w == writeCustomersToExcel(st1, Append(r.ret, newCustomer))
    IN  [st |-> w.st, threw |-> w.threw, ret |-> newCustomer]

updateCustomer(st, id, updates) ==
    LET r == readCustomersFromExcel(st)
        i == FindIndex(r.ret, id, 1)
    IN  IF i = 0 THEN [st |-> r.st, found |-> FALSE, threw |-> FALSE]
        ELSE LET w == writeCustomersToExcel(r.st, [r.ret EXCEPT ![i] = Overlay(@, updates)])
             IN  [st |-> w.st, found |-> TRUE, threw |-> w.threw]

(***************************************************************************)
(* Orders                                                                  *)
(***************************************************************************)
rowToOrder(row) ==
    [id |-> parseInt(Cell(row, 1)), orderNumber |-> Cell(row, 2),
     customerId |-> parseInt(Cell(row, 3)), productionUnitId |-> parseInt(Cell(row, 4)),
     deliveryDate |-> IF Truthy(Cell(row, 5)) THEN NewDate(Cell(row, 5)) ELSE Null,
     status |-> Cell(row, 6),
     totalAmount |-> Or(Cell(row, 7), "0"), paidAmount |-> Or(Cell(row, 8), "0"),
     currency |-> Or(Cell(row, 9), "INR")]

readOrdersFromExcel(st) ==
    LET data == readExcelFile(st.orders)
        read == [i \in 1 .. Len(data) |-> rowToOrder(data[i])]
    IN  [st |-> [st EXCEPT !.ctr.order = NextIdAfter(@, read)], ret |-> read]

orderToRow(o) ==
    <<toString(o.id), o.orderNumber, toString(o.customerId), toString(o.productionUnitId),
      o.deliveryDate, o.status, o.totalAmount, o.paidAmount, o.currency>>

\* threw: some deliveryDate is an Invalid Date, whose toISOString() throws
writeOrdersToExcel(st, os) ==
    IF \E i \in 1 .. Len(os) : DateThrows(os[i].deliveryDate)
    THEN [st |-> st, threw |-> TRUE]
    ELSE [st |-> [st EXCEPT !.orders = [i \in 1 .. Len(os) |-> orderToRow(os[i])]],
          threw |-> FALSE]
\* a deleteCustomer that does not look at the orders
deleteCustomer_Unchecked(st, id) ==
    LET r == readCustomersFromExcel(st)
        filtered == SelectSeq(r.ret, LAMBDA x : x.id # id)
    IN  IF Len(filtered) = Len(r.ret)
        THEN [st |-> r.st, found |-> FALSE, threw |-> FALSE]
        ELSE LET w == writeCustomersToExcel(r.st, filtered)
             IN  [st |-> w.st, found |-> TRUE, threw |-> w.threw]

deleteCustomer(st, id) ==
    LET o == readOrdersFromExcel(st)
    IN  IF \E i \in 1 .. Len(o.ret) : o.ret[i].customerId = id
        THEN [st |-> o.st, found |-> FALSE, threw |-> FALSE]
        ELSE LET r == readCustomersFromExcel(o.st)
                 filtered == SelectSeq(r.ret, LAMBDA x : x.id # id)
             IN  IF Len(filtered) = Len(r.ret)
                 THEN [st |-> r.st, found |-> FALSE, threw |-> FALSE]
                 ELSE LET w == writeCustomersToExcel(r.st, filtered)
                      IN  [st |-> w.st, found |-> TRUE, threw |-> w.threw]

\* String(n).padStart(4, '0')
padStart4(n) ==
    IF n < 10 THEN "000" \o toString(n)
    ELSE IF n < 100 THEN "00" \o toString(n)
    ELSE IF n < 1000 THEN "0" \o toString(n)
    ELSE toString(n)

\* `ORD-${new Date().getFullYear()}-${...}`; the year is left symbolic
generatedOrderNumber(n) == "ORD-yyyy-" \o padStart4(n)

OrderBlank ==
    [orderNumber |-> Null, deliveryDate |-> Null, status |-> Null, totalAmount |-> Null]

\* the revenue entry createOrder and updateOrder make for an order
revenueForOrder(o) ==
    [productionUnitId |-> o.productionUnitId, amount |-> o.totalAmount,
     category |-> "Stitching", orderId |-> o.id]

IsBillable(o) == parseFloat(o.totalAmount) > 0 /\ o.status # "draft"

createOrder(st, order) ==
    LET r == readOrdersFromExcel(st)
        b == WithDefaults(order, OrderBlank)
        newOrder ==
            [id |-> r.st.ctr.order,
             orderNumber |-> Or(b.orderNumber, generatedOrderNumber(r.st.ctr.order)),
             customerId |-> b.customerId, productionUnitId |-> b.productionUnitId,
             deliveryDate |-> b.deliveryDate,
             status |-> Or(b.status, "pending"),
             totalAmount |-> Or(b.totalAmount, "0"), paidAmount |-> "0", currency |-> "INR"]
        st1 == [r.st EXCEPT !.ctr.order = @ + 1]
        w == writeOrdersToExcel(st1, Append(r.ret, newOrder))
    IN  IF w.threw THEN [st |-> w.st, threw |-> TRUE, ret |-> newOrder]
        ELSE IF IsBillable(newOrder)
        THEN [st |-> createRevenue(w.st, revenueForOrder(newOrder)).st, threw |-> FALSE,
              ret |-> newOrder]
        ELSE [st |-> w.st, threw |-> FALSE, ret |-> newOrder]

RECURSIVE FindByOrderId(_, _, _)
\* revenues.findIndex(revenue => revenue.orderId === id), 1-based; 0 for -1
FindByOrderId(rs, id, i) ==
    IF i > Len(rs) THEN 0
    ELSE IF orderIdOf(rs[i]) = id THEN i
    ELSE FindByOrderId(rs, id, i + 1)

Changed(updates, old, f) == f \in DOMAIN updates /\ Truthy(updates[f]) /\ updates[f] # old[f]

updateOrder(st, id, updates) ==
    LET r == readOrdersFromExcel(st)
        i == FindIndex(r.ret, id, 1)
    IN  IF i = 0 THEN [st |-> r.st, found |-> FALSE, threw |-> FALSE]
        ELSE LET oldOrder == r.ret[i]
                 updatedOrder == Overlay(oldOrder, updates)
                 w == writeOrdersToExcel(r.st, [r.ret EXCEPT ![i] = updatedOrder])
             IN  IF w.threw THEN [st |-> w.st, found |-> TRUE, threw |-> TRUE]
                 ELSE IF Changed(updates, oldOrder, "totalAmount")
                            \/ Changed(updates, oldOrder, "status")
                 THEN LET v == readRevenuesFromExcel(w.st)
                          k == FindByOrderId(v.ret, id, 1)
                      IN  IF k # 0
                          THEN [st |-> updateRevenue(v.st, v.ret[k].id,
                                           [amount |-> updatedOrder.totalAmount]).st,
                                found |-> TRUE, threw |-> FALSE]
                          ELSE IF IsBillable(updatedOrder)
                          THEN [st |-> createRevenue(v.st, revenueForOrder(updatedOrder)).st,
                                found |-> TRUE, threw |-> FALSE]
                          ELSE [st |-> v.st, found |-> TRUE, threw |-> FALSE]
                 ELSE [st |-> w.st, found |-> TRUE, threw |-> FALSE]

deleteOrder(st, id) ==
    LET r == readOrdersFromExcel(st)
        i == FindIndex(r.ret, id, 1)
    IN  IF i = 0 THEN [st |-> r.st, found |-> FALSE, threw |-> FALSE]
        ELSE LET v == readRevenuesFromExcel(r.st)
                 k == FindByOrderId(v.ret, id, 1)
                 st1 == IF k # 0 THEN deleteRevenue(v.st, v.ret[k].id).st ELSE v.st
                 w == writeOrdersToExcel(st1, SelectSeq(r.ret, LAMBDA x : x.id # id))
             IN  [st |-> w.st, found |-> TRUE, threw |-> w.threw]

(***************************************************************************)
(* Salary payments                                                         *)
(***************************************************************************)
\* the loop over the headers: payment[header] = row[j], with parseInt for id,
\* productionUnitId and employeeId and new Date(value) for paymentDate
rowToSalaryPayment(row) ==
    [id |-> parseInt(Cell(row, 1)), employeeName |-> Cell(row, 2),
     employeeId |-> toString(parseInt(Cell(row, 3))),
     productionUnitId |-> parseInt(Cell(row, 4)), amount |-> Cell(row, 5),
     paymentDate |-> NewDate(Cell(row, 6)), paymentMethod |-> Cell(row, 7),
     notes |-> Cell(row, 8), month |-> Cell(row, 9), year |-> Cell(row, 10)]

readSalaryPaymentsFromExcel(st) ==
    LET data == readExcelFile(st.salaries)
        read == [i \in 1 .. Len(data) |-> rowToSalaryPayment(data[i])]
    IN  [st |-> [st EXCEPT !.ctr.salary = NextIdAfter(@, read)], ret |-> read]

salaryPaymentToRow(p) ==
    <<toString(p.id), p.employeeName, p.employeeId, toString(p.productionUnitId), p.amount,
      p.paymentDate, p.paymentMethod, p.notes, p.month, p.year>>

\* threw: some paymentDate is an Invalid Date, whose toISOString() throws; the
\* catch block logs and throws again
writeSalaryPaymentsToExcel(st, ps) ==
    IF \E i \in 1 .. Len(ps) : DateThrows(ps[i].paymentDate)
    THEN [st |-> st, threw |-> TRUE]
    ELSE [st |-> [st EXCEPT !.salaries = [i \in 1 .. Len(ps) |-> salaryPaymentToRow(ps[i])]],
          threw |-> FALSE]

SalaryBlank == [employeeId |-> Null, paymentMethod |-> Null, notes |-> Null]

\* the expense createSalaryPayment passes to createExpense
expenseForSalary(p) ==
    [productionUnitId |-> p.productionUnitId, amount |-> p.amount, category |-> "Salary"]

\* a createSalaryPayment that makes the expense whatever the amount
createSalaryPayment_Always(st, payment) ==
    LET r == readSalaryPaymentsFromExcel(st)
        newPayment ==
            Overlay(WithDefaults(payment, SalaryBlank),
                    [id |-> r.st.ctr.salary, paymentDate |-> DateStr])
        st1 == [r.st EXCEPT !.ctr.salary = @ + 1]
        w == writeSalaryPaymentsToExcel(st1, Append(r.ret, newPayment))
    IN  IF w.threw THEN [st |-> w.st, threw |-> TRUE, ret |-> newPayment]
        ELSE [st |-> createExpense(w.st, expenseForSalary(newPayment)).st, threw |-> FALSE,
              ret |-> newPayment]

createSalaryPayment(st, payment) ==
    LET r == readSalaryPaymentsFromExcel(st)
        newPayment ==
            Overlay(WithDefaults(payment, SalaryBlank),
                    [id |-> r.st.ctr.salary, paymentDate |-> DateStr])
        st1 == [r.st EXCEPT !.ctr.salary = @ + 1]
        w == writeSalaryPaymentsToExcel(st1, Append(r.ret, newPayment))
    IN  IF w.threw THEN [st |-> w.st, threw |-> TRUE, ret |-> newPayment]
        ELSE IF parseFloat(newPayment.amount) > 0
        THEN [st |-> createExpense(w.st, expenseForSalary(newPayment)).st, threw |-> FALSE,
              ret |-> newPayment]
        ELSE [st |-> w.st, threw |-> FALSE, ret |-> newPayment]

updateSalaryPayment(st, id, updates) ==
    LET r == readSalaryPaymentsFromExcel(st)
        i == FindIndex(r.ret, id, 1)
    IN  IF i = 0 THEN [st |-> r.st, found |-> FALSE, threw |-> FALSE]
        ELSE LET w == writeSalaryPaymentsToExcel(r.st,
                          [r.ret EXCEPT ![i] = Overlay(@, updates)])
             IN  [st |-> w.st, found |-> TRUE, threw |-> w.threw]

\* a deleteSalaryPayment that also deletes the expense of the same id
deleteSalaryPayment_Cascading(st, id) ==
    LET r == readSalaryPaymentsFromExcel(st)
        filtered == SelectSeq(r.ret, LAMBDA x : x.id # id)
    IN  IF Len(filtered) = Len(r.ret)
        THEN [st |-> r.st, found |-> FALSE, threw |-> FALSE]
        ELSE LET w == writeSalaryPaymentsToExcel(deleteExpense(r.st, id).st, filtered)
             IN  [st |-> w.st, found |-> TRUE, threw |-> w.threw]

deleteSalaryPayment(st, id) ==
    LET r == readSalaryPaymentsFromExcel(st)
        filtered == SelectSeq(r.ret, LAMBDA x : x.id # id)
    IN  IF Len(filtered) = Len(r.ret)
        THEN [st |-> r.st, found |-> FALSE, threw |-> FALSE]
        ELSE LET w == writeSalaryPaymentsToExcel(r.st, filtered)
             IN  [st |-> w.st, found |-> TRUE, threw |-> w.threw]

(***************************************************************************)
(* Maintenance records                                                     *)
(***************************************************************************)
\* record[header] = row[j], with parseInt for id, productionUnitId and machineId
\* and "value ? new Date(value) : null" for date and nextMaintenanceDate
rowToMaintenanceRecord(row) ==
    [id |-> parseInt(Cell(row, 1)), productionUnitId |-> parseInt(Cell(row, 2)),
     machineId |-> toString(parseInt(Cell(row, 3))), machineName |-> Cell(row, 4),
     maintenanceType |-> Cell(row, 5), description |-> Cell(row, 6), cost |-> Cell(row, 7),
     date |-> IF Truthy(Cell(row, 8)) THEN NewDate(Cell(row, 8)) ELSE Null,
     nextMaintenanceDate |-> IF Truthy(Cell(row, 9)) THEN NewDate(Cell(row, 9)) ELSE Null,
     performedBy |-> Cell(row, 10), notes |-> Cell(row, 11)]

readMaintenanceRecordsFromExcel(st) ==
    LET data == readExcelFile(st.maintenance)
        read == [i \in 1 .. Len(data) |-> rowToMaintenanceRecord(data[i])]
    IN  [st |-> [st EXCEPT !.ctr.maintenance = NextIdAfter(@, read)], ret |-> read]

\* date: new Date(null).toISOString() is the epoch for a record without a date
maintenanceRecordToRow(m) ==
    <<toString(m.id), toString(m.productionUnitId), m.machineId, m.machineName,
      m.maintenanceType, m.description, m.cost,
      IF m.date = Null THEN DateStr ELSE m.date, m.nextMaintenanceDate, m.performedBy,
      m.notes>>

writeMaintenanceRecordsToExcel(st, ms) ==
    IF \E i \in 1 .. Len(ms) : DateThrows(ms[i].date) \/ DateThrows(ms[i].nextMaintenanceDate)
    THEN [st |-> st, threw |-> TRUE]
    ELSE [st |-> [st EXCEPT !.maintenance =
                      [i \in 1 .. Len(ms) |-> maintenanceRecordToRow(ms[i])]],
          threw |-> FALSE]

MaintenanceBlank ==
    [machineId |-> Null, nextMaintenanceDate |-> Null, performedBy |-> Null, notes |-> Null]

\* the expense createMaintenanceRecord passes to createExpense
expenseForMaintenance(m) ==
    [productionUnitId |-> m.productionUnitId, amount |-> m.cost, category |-> "Maintenance"]

createMaintenanceRecord(st, record) ==
    LET r == readMaintenanceRecordsFromExcel(st)
        newRecord ==
            Overlay(WithDefaults(record, MaintenanceBlank),
                    [id |-> r.st.ctr.maintenance, date |-> DateStr])
        st1 == [r.st EXCEPT !.ctr.maintenance = @ + 1]
        w == writeMaintenanceRecordsToExcel(st1, Append(r.ret, newRecord))
    IN  IF w.threw THEN [st |-> w.st, threw |-> TRUE, ret |-> newRecord]
        ELSE IF parseFloat(newRecord.cost) > 0
        THEN [st |-> createExpense(w.st, expenseForMaintenance(newRecord)).st,
              threw |-> FALSE, ret |-> newRecord]
        ELSE [st |-> w.st, threw |-> FALSE, ret |-> newRecord]

updateMaintenanceRecord(st, id, updates) ==
    LET r == readMaintenanceRecordsFromExcel(st)
        i == FindIndex(r.ret, id, 1)
    IN  IF i = 0 THEN [st |-> r.st, found |-> FALSE, threw |-> FALSE]
        ELSE LET w == writeMaintenanceRecordsToExcel(r.st,
                          [r.ret EXCEPT ![i] = Overlay(@, updates)])
             IN  [st |-> w.st, found |-> TRUE, threw |-> w.threw]

deleteMaintenanceRecord(st, id) ==
    LET r == readMaintenanceRecordsFromExcel(st)
        filtered == SelectSeq(r.ret, LAMBDA x : x.id # id)
    IN  IF Len(filtered) = Len(r.ret)
        THEN [st |-> r.st, found |-> FALSE, threw |-> FALSE]
        ELSE LET w == writeMaintenanceRecordsToExcel(r.st, filtered)
             IN  [st |-> w.st, found |-> TRUE, threw |-> w.threw]

(***************************************************************************)
(* Users                                                                   *)
(***************************************************************************)
\* the default admin user readUsersFromExcel writes into a missing or empty file
defaultUser ==
    [id |-> 1, username |-> "admin", password |-> "admin", name |-> "Administrator",
     role |-> "admin"]

rowToUser(row) ==
    [id |-> parseInt(Cell(row, 1)), username |-> Cell(row, 2), password |-> Cell(row, 3),
     name |-> Cell(row, 4), role |-> Cell(row, 5)]

userToRow(u) == <<toString(u.id), u.username, u.password, u.name, u.role>>

writeUsersToExcel(st, us) == [st EXCEPT !.users = [i \in 1 .. Len(us) |-> userToRow(us[i])]]

\* a file that is missing or holds no row gets the default admin user, and that
\* user is returned without a look at the counter
readUsersFromExcel(st) ==
    LET data == readExcelFile(st.users)
        read == [i \in 1 .. Len(data) |-> rowToUser(data[i])]
    IN  IF data = <<>>
        THEN [st |-> writeUsersToExcel(st, <<defaultUser>>), ret |-> <<defaultUser>>]
        ELSE [st |-> [st EXCEPT !.ctr.user = NextIdAfter(@, read)], ret |-> read]

RECURSIVE FindUsername(_, _, _)
\* users.find(u => u.username === username), as an index; 0 for undefined
FindUsername(us, username, i) ==
    IF i > Len(us) THEN 0
    ELSE IF us[i].username = username THEN i
    ELSE FindUsername(us, username, i + 1)

\* a createUser that does not look for the username
createUser_Unchecked(st, user) ==
    LET r == readUsersFromExcel(st)
        newUser == Overlay(user, [id |-> r.st.ctr.user])
        st1 == [r.st EXCEPT !.ctr.user = @ + 1]
    IN  [st |-> writeUsersToExcel(st1, Append(r.ret, newUser)), ret |-> newUser]

createUser(st, user) ==
    LET r == readUsersFromExcel(st)
        k == FindUsername(r.ret, user.username, 1)
        newUser == Overlay(user, [id |-> r.st.ctr.user])
        st1 == [r.st EXCEPT !.ctr.user = @ + 1]
    IN  IF k # 0 THEN [st |-> r.st, ret |-> r.ret[k]]
        ELSE [st |-> writeUsersToExcel(st1, Append(r.ret, newUser)), ret |-> newUser]

\* initializeStorage: the default admin user is created if no such user exists
initialUser ==
    [username |-> "admin", password |-> "admin", name |-> "John Doe",
     role |-> "Financial Manager"]

(***************************************************************************)
(* Dashboard                                                               *)
(***************************************************************************)
RECURSIVE SumAmounts(_)
\* records.reduce((sum, r) => sum + parseFloat(r.amount.toString()), 0)
SumAmounts(records) ==
    IF records = <<>> THEN 0
    ELSE Plus(parseFloat(Head(records).amount), SumAmounts(Tail(records)))

\* getStatSummary().totalRevenue
totalRevenue(st) == SumAmounts(readRevenuesFromExcel(st).ret)

(***************************************************************************)
(* Schema validation (zod schemas of shared/schema.ts). A request body is  *)
(* a record of the properties it carries; Bad is a value of the wrong type.*)
(***************************************************************************)
Bad == "<bad>"

NumberFields == {"productionUnitId", "customerId", "orderId"}

WellTyped(body) == \A f \in (DOMAIN body) \ NumberFields : body[f] # Bad

\* schema.safeParse(body).success
safeParse(body, required) == required \subseteq DOMAIN body /\ WellTyped(body)

\* schema.partial().safeParse(body).success
safeParsePartial(body) == WellTyped(body)

UnitRequired == {"name"}
ExpenseRequired == {"productionUnitId", "amount", "category"}
RevenueRequired == {"productionUnitId", "amount", "category"}
InventoryRequired == {"name", "unitCost"}
CustomerRequired == {"name"}
OrderRequired == {"orderNumber", "customerId", "productionUnitId", "totalAmount"}
SalaryRequired == {"employeeName", "productionUnitId", "amount", "month", "year"}
MaintenanceRequired ==
    {"productionUnitId", "machineName", "maintenanceType", "description", "cost"}

(***************************************************************************)
(* Routes. A handler maps the store and a request to the store it leaves   *)
(* and the answer it sends: [st, status, id].  Every handler is one step:  *)
(* the handlers share no state but the store, and a request is served to   *)
(* its end before the next one starts.                                     *)
(***************************************************************************)
Threw(r) == "threw" \in DOMAIN r /\ r.threw

\* res.status(400) on a failed validation, else the storage call and 201;
\* the catch block answers 500
Post(st, body, required, r) ==
    IF ~safeParse(body, required) THEN [st |-> st, status |-> 400, id |-> 0]
    ELSE [st |-> r.st, status |-> IF Threw(r) THEN 500 ELSE 201, id |-> r.ret.id]

\* a PUT handler that does not validate the body
Put_Unvalidated(st, id, body, r) ==
    [st |-> r.st,
     status |-> IF Threw(r) THEN 500 ELSE IF r.found THEN 200 ELSE 404, id |-> id]

\* res.status(400) on a failed validation, 404 when the storage call finds nothing, else 200
Put(st, id, body, r) ==
    IF ~safeParsePartial(body) THEN [st |-> st, status |-> 400, id |-> id]
    ELSE [st |-> r.st,
          status |-> IF Threw(r) THEN 500 ELSE IF r.found THEN 200 ELSE 404, id |-> id]

\* 404 when the storage call returns false, else 204
Delete(st, id, r) ==
    [st |-> r.st, status |-> IF Threw(r) THEN 500 ELSE IF r.found THEN 204 ELSE 404,
     id |-> id]

postProductionUnit(st, body) == Post(st, body, UnitRequired, createProductionUnit(st, body))

putProductionUnit(st, id, body) == Put(st, id, body, updateProductionUnit(st, id, body))

delProductionUnit(st, id) == Delete(st, id, deleteProductionUnit(st, id))

postExpense(st, body) == Post(st, body, ExpenseRequired, createExpense(st, body))

\* POST /api/expenses served while expenses.xlsx cannot be read
postExpenseReadFailed(st, body) ==
    Post(st, body, ExpenseRequired, createExpenseFrom(readExpensesFailed(st), body))

putExpense(st, id, body) == Put(st, id, body, updateExpense(st, id, body))

delExpense(st, id) == Delete(st, id, deleteExpense(st, id))

postRevenue(st, body) == Post(st, body, RevenueRequired, createRevenue(st, body))

putRevenue(st, id, body) == Put(st, id, body, updateRevenue(st, id, body))

delRevenue(st, id) == Delete(st, id, deleteRevenue(st, id))

postInventory(st, body) ==
    Post(st, body, InventoryRequired,
         createInventoryItem(st, WithDefaults(body, [quantity |-> Null])))

putInventory(st, id, body) == Put(st, id, body, updateInventoryItem(st, id, body))

delInventory(st, id) == Delete(st, id, deleteInventoryItem(st, id))

postCustomer(st, body) == Post(st, body, CustomerRequired, createCustomer(st, body))

putCustomer(st, id, body) == Put(st, id, body, updateCustomer(st, id, body))

delCustomer(st, id) == Delete(st, id, deleteCustomer(st, id))

postOrder(st, body) == Post(st, body, OrderRequired, createOrder(st, body))

putOrder(st, id, body) == Put(st, id, body, updateOrder(st, id, body))

delOrder(st, id) == Delete(st, id, deleteOrder(st, id))

postSalaryPayment(st, body) == Post(st, body, SalaryRequired, createSalaryPayment(st, body))

putSalaryPayment(st, id, body) == Put(st, id, body, updateSalaryPayment(st, id, body))

delSalaryPayment(st, id) == Delete(st, id, deleteSalaryPayment(st, id))

postMaintenanceRecord(st, body) ==
    Post(st, body, MaintenanceRequired, createMaintenanceRecord(st, body))

putMaintenanceRecord(st, id, body) ==
    Put(st, id, body, updateMaintenanceRecord(st, id, body))

delMaintenanceRecord(st, id) == Delete(st, id, deleteMaintenanceRecord(st, id))

\* the files and counters of production units, expenses, salary payments and
\* maintenance records are in use
CostInUse(st) ==
    \/ st.units # <<>> \/ st.expenses # <<>> \/ st.ctr.unit # 1 \/ st.ctr.expense # 1
    \/ st.salaries # <<>> \/ st.maintenance # <<>>
    \/ st.ctr.salary # 1 \/ st.ctr.maintenance # 1

\* the files and counters of customers, orders and revenues are in use
OrdersInUse(st) ==
    \/ st.customers # <<>> \/ st.orders # <<>> \/ st.revenues # <<>>
    \/ st.ctr.customer # 1 \/ st.ctr.order # 1 \/ st.ctr.revenue # 1

InventoryInUse(st) == st.inventory # <<>> \/ st.ctr.inventory # 1

\* no handler reads or writes files of two of these groups, so the model explores
\* the stores in which one group at a time is in use
OneGroup(st) ==
    /\ ~(CostInUse(st) /\ OrdersInUse(st))
    /\ ~(CostInUse(st) /\ InventoryInUse(st))
    /\ ~(OrdersInUse(st) /\ InventoryInUse(st))

\* the states the model explores: no counter beyond MaxId + 1, no cost beyond MaxNum
WithinBounds(st) ==
    /\ \A c \in DOMAIN st.ctr : st.ctr[c] <= MaxId + 1
    /\ \A i \in 1 .. Len(st.units) : st.units[i][3] # OutOfRange
    /\ OneGroup(st)

\* the request is served: the store becomes the one the handler leaves
Serve(res) == WithinBounds(res.st) /\ Becomes(res.st) /\ UNCHANGED <<calls, gst>>

PostProductionUnit(body) == Serve(postProductionUnit(Store, body))

PutProductionUnit(id, body) == Serve(putProductionUnit(Store, id, body))

DeleteProductionUnit(id) == Serve(delProductionUnit(Store, id))

PostExpense(body) == Serve(postExpense(Store, body))

PostExpenseReadFailed(body) == Serve(postExpenseReadFailed(Store, body))

PutExpense(id, body) == Serve(putExpense(Store, id, body))

DeleteExpense(id) == Serve(delExpense(Store, id))

PostRevenue(body) == Serve(postRevenue(Store, body))

PutRevenue(id, body) == Serve(putRevenue(Store, id, body))

DeleteRevenue(id) == Serve(delRevenue(Store, id))

PostInventory(body) == Serve(postInventory(Store, body))

PutInventory(id, body) == Serve(putInventory(Store, id, body))

DeleteInventory(id) == Serve(delInventory(Store, id))

PostCustomer(body) == Serve(postCustomer(Store, body))

PutCustomer(id, body) == Serve(putCustomer(Store, id, body))

DeleteCustomer(id) == Serve(delCustomer(Store, id))

PostOrder(body) == Serve(postOrder(Store, body))

PutOrder(id, body) == Serve(putOrder(Store, id, body))

DeleteOrder(id) == Serve(delOrder(Store, id))

PostSalaryPayment(body) == Serve(postSalaryPayment(Store, body))

PutSalaryPayment(id, body) == Serve(putSalaryPayment(Store, id, body))

DeleteSalaryPayment(id) == Serve(delSalaryPayment(Store, id))

PostMaintenanceRecord(body) == Serve(postMaintenanceRecord(Store, body))

PutMaintenanceRecord(id, body) == Serve(putMaintenanceRecord(Store, id, body))

DeleteMaintenanceRecord(id) == Serve(delMaintenanceRecord(Store, id))

(***************************************************************************)
(* Import.  An upload is a worksheet: a header row and the rows under it.  *)
(***************************************************************************)
RECURSIVE IndexFrom(_, _, _)
\* headers.indexOf(h), 1-based; 0 for -1
IndexFrom(headers, h, i) ==
    IF i > Len(headers) THEN 0
    ELSE IF headers[i] = h THEN i
    ELSE IndexFrom(headers, h, i + 1)

IndexOf(headers, h) == IndexFrom(headers, h, 1)

\* row[index]: undefined for index -1 and beyond the last cell
At(row, index) == IF index = 0 THEN Null ELSE Cell(row, index)
\* a validateHeaders that never throws
validateHeaders_Lenient(headers, requiredFields) == TRUE

\* TRUE when validateHeaders returns, FALSE when it throws
validateHeaders(headers, requiredFields) ==
    \A f \in requiredFields : \E i \in 1 .. Len(headers) : headers[i] = f

RECURSIVE importUnitRows(_, _, _)
importUnitRows(st, headers, rows) ==
    IF rows = <<>> THEN [st |-> st, threw |-> FALSE]
    ELSE importUnitRows(
             createProductionUnit(st, [name |-> At(Head(rows), IndexOf(headers, "name"))]).st,
             headers, Tail(rows))

importProductionUnits(st, headers, rows) ==
    IF ~validateHeaders(headers, {"name", "location", "status"})
    THEN [st |-> st, threw |-> TRUE]
    ELSE importUnitRows(st, headers, rows)

\* the record importExpenses and importRevenues build from a row
rowToInsert(headers, row) ==
    [productionUnitId |-> parseInt(At(row, IndexOf(headers, "productionUnitId"))),
     amount |-> At(row, IndexOf(headers, "amount")),
     category |-> At(row, IndexOf(headers, "category"))]

RECURSIVE importExpenseRows(_, _, _)
\* row[amountIndex].toString() throws on a row without that cell
importExpenseRows(st, headers, rows) ==
    IF rows = <<>> THEN [st |-> st, threw |-> FALSE]
    ELSE IF At(Head(rows), IndexOf(headers, "amount")) = Null THEN [st |-> st, threw |-> TRUE]
    ELSE importExpenseRows(createExpense(st, rowToInsert(headers, Head(rows))).st,
                           headers, Tail(rows))

importExpenses(st, headers, rows) ==
    IF ~validateHeaders(headers, {"productionUnitId", "description", "amount", "category"})
    THEN [st |-> st, threw |-> TRUE]
    ELSE importExpenseRows(st, headers, rows)

RECURSIVE importRevenueRows(_, _, _)
importRevenueRows(st, headers, rows) ==
    IF rows = <<>> THEN [st |-> st, threw |-> FALSE]
    ELSE IF At(Head(rows), IndexOf(headers, "amount")) = Null THEN [st |-> st, threw |-> TRUE]
    ELSE importRevenueRows(createRevenue(st, rowToInsert(headers, Head(rows))).st,
                           headers, Tail(rows))

importRevenues(st, headers, rows) ==
    IF ~validateHeaders(headers, {"productionUnitId", "description", "amount", "category"})
    THEN [st |-> st, threw |-> TRUE]
    ELSE importRevenueRows(st, headers, rows)

RECURSIVE importInventoryRows(_, _, _)
importInventoryRows(st, headers, rows) ==
    IF rows = <<>> THEN [st |-> st, threw |-> FALSE]
    ELSE IF At(Head(rows), IndexOf(headers, "quantity")) = Null
            \/ At(Head(rows), IndexOf(headers, "unitCost")) = Null
    THEN [st |-> st, threw |-> TRUE]
    ELSE importInventoryRows(
             createInventoryItem(st, [name |-> At(Head(rows), IndexOf(headers, "name")),
                                      quantity |-> At(Head(rows), IndexOf(headers, "quantity")),
                                      unitCost |-> At(Head(rows), IndexOf(headers, "unitCost"))]).st,
             headers, Tail(rows))

importInventory(st, headers, rows) ==
    IF ~validateHeaders(headers, {"name", "quantity", "unitCost"})
    THEN [st |-> st, threw |-> TRUE]
    ELSE importInventoryRows(st, headers, rows)

ImportTypes == {"production_units", "expenses", "revenues", "inventory"}

\* threw: the file has no row under its header row, the type is not supported,
\* or the import of the type throws
importFromExcel(st, file, type) ==
    LET data == readExcelFile(file)
    IN  IF Len(data) <= 1 THEN [st |-> st, threw |-> TRUE]
        ELSE IF type = "production_units" THEN importProductionUnits(st, Head(data), Tail(data))
        ELSE IF type = "expenses" THEN importExpenses(st, Head(data), Tail(data))
        ELSE IF type = "revenues" THEN importRevenues(st, Head(data), Tail(data))
        ELSE IF type = "inventory" THEN importInventory(st, Head(data), Tail(data))
        ELSE [st |-> st, threw |-> TRUE]

\* POST /api/import: 400 for a type outside the enum, 500 when the import throws
postImport(st, file, type) ==
    IF type \notin ImportTypes THEN [st |-> st, status |-> 400, id |-> 0]
    ELSE LET r == importFromExcel(st, file, type)
         IN  [st |-> r.st, status |-> IF r.threw THEN 500 ELSE 200, id |-> 0]

PostImport(file, type) == Serve(postImport(Store, file, type))

(***************************************************************************)
(* GST arithmetic (src/shared/gst-utils.ts).  The amounts are JavaScript   *)
(* numbers: IEEE 754 doubles, here a 53-bit significand m (most significant*)
(* bit first) and an exponent e, the value being m * 2^e; every operation  *)
(* rounds its exact result to the nearest double, ties to even.            *)
(***************************************************************************)
Zeros(n) == [i \in 1 .. n |-> 0]

Front(b) == SubSeq(b, 1, Len(b) - 1)

Last(b) == b[Len(b)]

RECURSIVE ToBits(_)
ToBits(n) == IF n = 0 THEN <<>> ELSE Append(ToBits(n \div 2), n % 2)

RECURSIVE FromBits(_)
FromBits(b) == IF b = <<>> THEN 0 ELSE 2 * FromBits(Front(b)) + Last(b)

RECURSIVE Strip(_)
Strip(b) == IF b # <<>> /\ b[1] = 0 THEN Strip(Tail(b)) ELSE b

Reverse(b) == [i \in 1 .. Len(b) |-> b[Len(b) + 1 - i]]

\* the bits of b * k + carry (as many as b has) and the carry out of them, for
\* a small k and b least significant bit first
RECURSIVE MulFrom(_, _, _)
MulFrom(b, k, carry) ==
    IF Len(b) = 0 THEN [bits |-> <<>>, carry |-> carry]
    ELSE IF Len(b) = 1
    THEN [bits |-> <<(b[1] * k + carry) % 2>>, carry |-> (b[1] * k + carry) \div 2]
    ELSE LET h == Len(b) \div 2
             low == MulFrom(SubSeq(b, 1, h), k, carry)
             high == MulFrom(SubSeq(b, h + 1, Len(b)), k, low.carry)
         IN  [bits |-> low.bits \o high.bits, carry |-> high.carry]

\* b * k, for a small k
MulSmall(b, k) == LET p == MulFrom(Reverse(b), k, 0) IN ToBits(p.carry) \o Reverse(p.bits)

\* quotient and remainder of (r * 2^Len(b) + b) by a small d, the high half first
RECURSIVE DivFrom(_, _, _)
DivFrom(b, d, r) ==
    IF Len(b) = 0 THEN [q |-> <<>>, r |-> r]
    ELSE IF Len(b) = 1
    THEN [q |-> <<(2 * r + b[1]) \div d>>, r |-> (2 * r + b[1]) % d]
    ELSE LET h == Len(b) \div 2
             high == DivFrom(SubSeq(b, 1, h), d, r)
             low == DivFrom(SubSeq(b, h + 1, Len(b)), d, high.r)
         IN  [q |-> high.q \o low.q, r |-> low.r]

\* quotient and remainder of b by a small d
DivSmall(b, d) == DivFrom(b, d, 0)

\* the bits of a + b + carry and the carry out of them, for a and b of one
\* length, least significant bit first
RECURSIVE AddFrom(_, _, _)
AddFrom(a, b, carry) ==
    IF Len(a) = 0 THEN [bits |-> <<>>, carry |-> carry]
    ELSE IF Len(a) = 1
    THEN [bits |-> <<(a[1] + b[1] + carry) % 2>>, carry |-> (a[1] + b[1] + carry) \div 2]
    ELSE LET h == Len(a) \div 2
             low == AddFrom(SubSeq(a, 1, h), SubSeq(b, 1, h), carry)
             high == AddFrom(SubSeq(a, h + 1, Len(a)), SubSeq(b, h + 1, Len(b)), low.carry)
         IN  [bits |-> low.bits \o high.bits, carry |-> high.carry]

\* a + b
AddBits(a, b) ==
    LET n == IF Len(a) < Len(b) THEN Len(b) ELSE Len(a)
        p == AddFrom(Reverse(Zeros(n - Len(a)) \o a), Reverse(Zeros(n - Len(b)) \o b), 0)
    IN  ToBits(p.carry) \o Reverse(p.bits)

Zero == [m |-> <<>>, e |-> 0]

SignificandBits == 53

\* the double nearest to n * 2^e (plus a nonzero part below the last bit of n
\* when inexact), ties to even
RoundToDouble(n, e, inexact) ==
    LET L == Len(n)
        kept == SubSeq(n, 1, SignificandBits)
        rest == inexact \/ \E i \in SignificandBits + 2 .. L : n[i] = 1
        up == n[SignificandBits + 1] = 1 /\ (rest \/ kept[SignificandBits] = 1)
        next == AddBits(kept, <<1>>)
    IN  IF L <= SignificandBits
        THEN [m |-> n \o Zeros(SignificandBits - L), e |-> e - (SignificandBits - L)]
        ELSE IF ~up THEN [m |-> kept, e |-> e + (L - SignificandBits)]
        ELSE IF Len(next) > SignificandBits
             THEN [m |-> Front(next), e |-> e + (L - SignificandBits) + 1]
             ELSE [m |-> next, e |-> e + (L - SignificandBits)]

\* Number("r.pp"): the double nearest to paise / 100
Number(paise) ==
    IF paise = 0 THEN Zero
    ELSE LET d == DivSmall(ToBits(paise) \o Zeros(62), 100)
         IN  RoundToDouble(Strip(d.q), -62, d.r # 0)

\* x * k for a double x and a small whole number k
Times(x, k) ==
    IF x.m = <<>> \/ k = 0 THEN Zero
    ELSE RoundToDouble(MulSmall(x.m, k), x.e, FALSE)

\* x / k for a double x and a small whole number k
Over(x, k) ==
    IF x.m = <<>> THEN Zero
    ELSE LET d == DivSmall(x.m \o Zeros(11), k)
         IN  RoundToDouble(Strip(d.q), x.e - 11, d.r # 0)

\* x + y for two doubles
Sum(x, y) ==
    IF x.m = <<>> THEN y
    ELSE IF y.m = <<>> THEN x
    ELSE LET e == IF x.e < y.e THEN x.e ELSE y.e
         IN  RoundToDouble(AddBits(x.m \o Zeros(x.e - e), y.m \o Zeros(y.e - e)), e, FALSE)

\* x.toFixed(2), as a number of paise: the integer n for which n / 100 - x is
\* closest to zero, the larger one if there are two
toFixed(x) ==
    LET n == MulSmall(x.m, 100)
        L == Len(n)
        k == 0 - x.e
    IN  IF x.m = <<>> THEN 0
        ELSE IF k <= 0 THEN FromBits(n \o Zeros(0 - k))
        ELSE IF k > L THEN 0
        ELSE FromBits(SubSeq(n, 1, L - k)) + n[L - k + 1]

calculateGSTFromTotal(totalAmount, gstRate) ==
    LET divisor == 100 + gstRate
        gstAmount == Over(Times(totalAmount, gstRate), divisor)
    IN  Number(toFixed(gstAmount))

calculateBaseFromTotal(totalAmount, gstRate) ==
    LET divisor == 100 + gstRate
        baseAmount == Over(Times(totalAmount, 100), divisor)
    IN  Number(toFixed(baseAmount))

calculateGSTFromBase(baseAmount, gstRate) ==
    LET gstAmount == Over(Times(baseAmount, gstRate), 100)
    IN  Number(toFixed(gstAmount))

calculateTotalFromBase(baseAmount, gstRate) ==
    LET gstAmount == calculateGSTFromBase(baseAmount, gstRate)
    IN  Number(toFixed(Sum(baseAmount, gstAmount)))

GSTRates == {0, 5, 12, 18, 28}

NoCalculation == [amount |-> 0, rate |-> 0, fromTotal |-> <<>>, fromBase |-> <<>>]

KeepsStorage ==
    UNCHANGED <<units, expenses, revenues, inventory, customers, orders, salaries,
                maintenance, users, ctr, calls, origin>>

\* the amount is a GST-inclusive total: its base and its GST, to two decimals
CalculateFromTotal ==
    /\ gst.amount > 0
    /\ gst.fromTotal = <<>>
    /\ gst' = [gst EXCEPT !.fromTotal =
                   <<toFixed(calculateBaseFromTotal(Number(gst.amount), gst.rate)),
                     toFixed(calculateGSTFromTotal(Number(gst.amount), gst.rate))>>]
    /\ KeepsStorage

\* the amount is a base: its GST and its total, to two decimals
CalculateFromBase ==
    /\ gst.amount > 0
    /\ gst.fromBase = <<>>
    /\ gst' = [gst EXCEPT !.fromBase =
                   <<toFixed(calculateGSTFromBase(Number(gst.amount), gst.rate)),
                     toFixed(calculateTotalFromBase(Number(gst.amount), gst.rate))>>]
    /\ KeepsStorage

(***************************************************************************)
(* createExpense, await by await.  A call runs from one await to the next  *)
(* without interruption (the event loop); at an await another call may run.*)
(***************************************************************************)
Callers == {1, 2}

Idle ==
    [pc |-> "idle", expense |-> [productionUnitId |-> 0, amount |-> "0", category |-> ""],
     id |-> 0, expenses |-> <<>>, newCost |-> "0", units |-> <<>>]

\* POST /api/expenses: the body is validated and createExpense is called
BeginCreateExpense(c, body) ==
    /\ calls[c].pc = "idle"
    /\ safeParse(body, ExpenseRequired)
    /\ calls' = [calls EXCEPT ![c] = [Idle EXCEPT !.pc = "readExpenses", !.expense = body]]
    /\ UNCHANGED <<units, expenses, revenues, inventory, customers, orders, salaries,
                   maintenance, users, ctr, gst, origin>>

\* const expenses = await this.readExpensesFromExcel(); newExpense gets this.expenseNextId++
ReadExpenses(c) ==
    LET r == readExpensesFromExcel(Store)
        st == [r.st EXCEPT !.ctr.expense = @ + 1]
    IN  /\ calls[c].pc = "readExpenses"
        /\ WithinBounds(st)
        /\ Becomes(st)
        /\ calls' = [calls EXCEPT ![c].pc = "writeExpenses", ![c].expenses = r.ret,
                                  ![c].id = r.st.ctr.expense]
        /\ UNCHANGED gst

\* expenses.push(newExpense); await this.writeExpensesToExcel(expenses)
WriteExpenses(c) ==
    LET newExpense == Overlay(calls[c].expense, [id |-> calls[c].id])
    IN  /\ calls[c].pc = "writeExpenses"
        /\ Becomes(writeExpensesToExcel(Store, Append(calls[c].expenses, newExpense)))
        /\ calls' = [calls EXCEPT ![c].pc = "getProductionUnit"]
        /\ UNCHANGED gst

\* const unit = await this.getProductionUnit(expense.productionUnitId); newCost
GetProductionUnit(c) ==
    LET g == getProductionUnit(Store, calls[c].expense.productionUnitId)
    IN  /\ calls[c].pc = "getProductionUnit"
        /\ Becomes(g.st)
        /\ calls' = IF g.found
                    THEN [calls EXCEPT
                              ![c].pc = "readUnits",
                              ![c].newCost = toString(Plus(parseFloat(g.ret.costToDate),
                                                           parseFloat(calls[c].expense.amount)))]
                    ELSE [calls EXCEPT ![c].pc = "done"]
        /\ UNCHANGED gst

\* updateProductionUnit: const units = await this.readProductionUnitsFromExcel()
ReadUnits(c) ==
    LET r == readProductionUnitsFromExcel(Store)
    IN  /\ calls[c].pc = "readUnits"
        /\ Becomes(r.st)
        /\ calls' = [calls EXCEPT ![c].pc = "writeUnits", ![c].units = r.ret]
        /\ UNCHANGED gst

\* updateProductionUnit: units[unitIndex] = { ...units[unitIndex], costToDate };
\* await this.writeProductionUnitsToExcel(units); createExpense returns
WriteUnits(c) ==
    LET i == FindIndex(calls[c].units, calls[c].expense.productionUnitId, 1)
        updated == [calls[c].units EXCEPT ![i] = Overlay(@, [costToDate |-> calls[c].newCost])]
    IN  /\ calls[c].pc = "writeUnits"
        /\ IF i = 0 THEN Becomes(Store)
           ELSE Becomes(writeProductionUnitsToExcel(Store, updated))
        /\ calls' = [calls EXCEPT ![c].pc = "done"]
        /\ UNCHANGED gst

\* the process is started again: the constructor sets every counter to 1,
\* and initializeStorage finds every file in place
InitialCounters ==
    [unit |-> 1, expense |-> 1, revenue |-> 1, inventory |-> 1, customer |-> 1, order |-> 1,
     salary |-> 1, maintenance |-> 1, user |-> 1]

Restart ==
    /\ ctr' = InitialCounters
    /\ UNCHANGED <<units, expenses, revenues, inventory, customers, orders, salaries,
                   maintenance, users, calls, gst, origin>>

Init ==
    /\ units = <<>>
    /\ expenses = <<>>
    /\ revenues = <<>>
    /\ inventory = <<>>
    /\ customers = <<>>
    /\ orders = <<>>
    /\ salaries = <<>>
    /\ maintenance = <<>>
    /\ users = <<>>
    /\ calls = [c \in Callers |-> Idle]
    /\ ctr = InitialCounters
    /\ origin = <<>>
    /\ gst = NoCalculation

(***************************************************************************)
(* Requests                                                                *)
(***************************************************************************)
PathIds == 1 .. MaxId

UnitBodies == {[name |-> "Unit A"], [name |-> Bad]}

UnitUpdates == {[name |-> "Unit B"], [name |-> Bad]}

ExpenseBodies ==
    [productionUnitId : {1, 2}, amount : {"3", "5"}, category : {"Materials"}]
        \cup {[productionUnitId |-> 1, amount |-> Bad, category |-> "Materials"],
              [productionUnitId |-> 1, amount |-> "5"]}

ExpenseUpdates == {[amount |-> "8"], [productionUnitId |-> 2], [amount |-> Bad]}

(***************************************************************************)
(* Production units and expenses                                           *)
(***************************************************************************)
NextCost ==
    \/ \E body \in UnitBodies : PostProductionUnit(body)
    \/ \E id \in PathIds, body \in UnitUpdates : PutProductionUnit(id, body)
    \/ \E id \in PathIds : DeleteProductionUnit(id)
    \/ \E body \in ExpenseBodies : PostExpense(body)
    \/ \E id \in PathIds, body \in ExpenseUpdates : PutExpense(id, body)
    \/ \E id \in PathIds : DeleteExpense(id)

(***************************************************************************)
(* Customers, orders and revenues                                          *)
(***************************************************************************)
\* a JSON body carries no Date: a deliveryDate sent as text fails z.date()
CustomerBodies ==
    {[name |-> "Asha"],
     [name |-> "Ravi", phone |-> "98", email |-> "r@x", address |-> "12 St", gstin |-> "G1",
      notes |-> "n"],
     [name |-> Bad]}

CustomerUpdates == {[phone |-> "77"], [name |-> Bad]}

OrderBodies ==
    {[orderNumber |-> "A-1", customerId |-> 1, productionUnitId |-> 1, totalAmount |-> "5"],
     [orderNumber |-> "A-2", customerId |-> 2, productionUnitId |-> 1, totalAmount |-> "0"],
     [orderNumber |-> "A-3", customerId |-> 1, productionUnitId |-> 1, totalAmount |-> "5",
      status |-> "draft"],
     [orderNumber |-> "A-1", customerId |-> 1, productionUnitId |-> 1, totalAmount |-> "5",
      deliveryDate |-> Bad],
     [orderNumber |-> "A-1", customerId |-> 1, productionUnitId |-> 1]}

OrderUpdates == {[totalAmount |-> "8"], [status |-> "delivered"], [totalAmount |-> Bad]}

RevenueBodies ==
    {[productionUnitId |-> 1, amount |-> "4", category |-> "Sales"],
     [productionUnitId |-> 1, amount |-> "4"]}

RevenueUpdates == {[amount |-> "6"], [orderId |-> 1], [amount |-> Bad]}

NextOrders ==
    \/ \E body \in CustomerBodies : PostCustomer(body)
    \/ \E id \in PathIds, body \in CustomerUpdates : PutCustomer(id, body)
    \/ \E id \in PathIds : DeleteCustomer(id)
    \/ \E body \in OrderBodies : PostOrder(body)
    \/ \E id \in PathIds, body \in OrderUpdates : PutOrder(id, body)
    \/ \E id \in PathIds : DeleteOrder(id)
    \/ \E body \in RevenueBodies : PostRevenue(body)
    \/ \E id \in PathIds, body \in RevenueUpdates : PutRevenue(id, body)
    \/ \E id \in PathIds : DeleteRevenue(id)

InventoryBodies == {[name |-> "Thread", unitCost |-> "2"], [name |-> "Thread"]}

InventoryUpdates == {[quantity |-> "9"], [unitCost |-> Bad]}

\* the columns an import of a type asks for, and a row under them
FullHeaders ==
    [production_units |-> <<"name", "location", "status">>,
     expenses |-> <<"productionUnitId", "description", "amount", "category">>,
     revenues |-> <<"productionUnitId", "description", "amount", "category">>,
     inventory |-> <<"name", "quantity", "unitCost">>]

FullRow ==
    [production_units |-> <<"Unit A", "Pune", "active">>,
     expenses |-> <<"1", "cloth", "5", "Materials">>,
     revenues |-> <<"1", "shirts", "4", "Sales">>,
     inventory |-> <<"Thread", "0", "2">>]

\* a row without its k-th column; the whole row for k = 0
Without(row, k) == [j \in 1 .. (Len(row) - (IF k = 0 THEN 0 ELSE 1)) |->
                        IF k = 0 \/ j < k THEN row[j] ELSE row[j + 1]]

\* worksheets of every type: complete, with one column left out, and without rows
Uploads ==
    UNION {{[type |-> t, file |-> <<Without(FullHeaders[t], k), Without(FullRow[t], k)>>] :
               k \in 0 .. Len(FullHeaders[t])} : t \in ImportTypes}
        \cup {[type |-> t, file |-> <<FullHeaders[t]>>] : t \in ImportTypes}
        \cup {[type |-> "orders", file |-> <<FullHeaders.inventory, FullRow.inventory>>]}

NextImport == \E u \in Uploads : PostImport(u.file, u.type)

(***************************************************************************)
(* Salary payments and maintenance records                                 *)
(***************************************************************************)
\* a payment with every optional property, one with none, one of amount 0,
\* and one whose amount is of the wrong type
SalaryBodies ==
    {[employeeName |-> "Mina", employeeId |-> "7", productionUnitId |-> 1, amount |-> "3",
      paymentMethod |-> "cash", notes |-> "may", month |-> "June", year |-> "2024"],
     [employeeName |-> "Mina", productionUnitId |-> 1, amount |-> "3", month |-> "June",
      year |-> "2024"],
     [employeeName |-> "Mina", employeeId |-> "7", productionUnitId |-> 1, amount |-> "0",
      paymentMethod |-> "cash", notes |-> "may", month |-> "June", year |-> "2024"],
     [employeeName |-> "Mina", productionUnitId |-> 1, amount |-> Bad, month |-> "June",
      year |-> "2024"]}

SalaryUpdates == {[amount |-> "5"], [amount |-> Bad]}

MaintenanceBodies ==
    {[productionUnitId |-> 1, machineId |-> "4", machineName |-> "Juki",
      maintenanceType |-> "repair", description |-> "belt", cost |-> "2",
      performedBy |-> "Ravi", notes |-> "ok"],
     [productionUnitId |-> 1, machineName |-> "Juki", maintenanceType |-> "repair",
      description |-> "belt", cost |-> "2"],
     [productionUnitId |-> 1, machineName |-> "Juki", maintenanceType |-> "repair",
      description |-> "belt", cost |-> "0"],
     [productionUnitId |-> 1, machineName |-> "Juki", maintenanceType |-> "repair",
      description |-> "belt", cost |-> Bad]}

MaintenanceUpdates == {[cost |-> "5"], [cost |-> Bad]}

NextPayroll ==
    \/ \E body \in UnitBodies : PostProductionUnit(body)
    \/ \E body \in SalaryBodies : PostSalaryPayment(body)
    \/ \E id \in PathIds, body \in SalaryUpdates : PutSalaryPayment(id, body)
    \/ \E id \in PathIds : DeleteSalaryPayment(id)
    \/ \E body \in MaintenanceBodies : PostMaintenanceRecord(body)
    \/ \E id \in PathIds, body \in MaintenanceUpdates : PutMaintenanceRecord(id, body)
    \/ \E id \in PathIds : DeleteMaintenanceRecord(id)

SpecPayroll == Init /\ [][NextPayroll]_vars

\* the operations through which cost accrues to a production unit, one at a time
NextAccrual ==
    \/ \E body \in UnitBodies : body.name # Bad /\ PostProductionUnit(body)
    \/ \E body \in ExpenseBodies : PostExpense(body)
    \/ \E id \in PathIds, body \in ExpenseUpdates : PutExpense(id, body)
    \/ \E id \in PathIds : DeleteExpense(id)
    \/ \E body \in SalaryBodies : body.amount = "3" /\ PostSalaryPayment(body)
    \/ \E body \in MaintenanceBodies : body.cost = "2" /\ PostMaintenanceRecord(body)
    \/ \E u \in Uploads : u.type = "expenses" /\ PostImport(u.file, u.type)

SpecAccrual == Init /\ [][NextAccrual]_vars

(***************************************************************************)
(* Users: initializeStorage and the calls of createUser, one at a time     *)
(***************************************************************************)
UserInputs ==
    [username : {"admin", "bina", "chand", "dev"}, password : {"pw1", "pw2"}, name : {"B", "C"},
     role : {"staff"}]

InitializeStorage == Serve([st |-> createUser(Store, initialUser).st])

CreateUser(user) == Serve([st |-> createUser(Store, user).st])

NextUsers ==
    \/ InitializeStorage
    \/ \E user \in UserInputs : CreateUser(user)
    \/ Restart

SpecUsers == Init /\ [][NextUsers]_vars

(***************************************************************************)
(* Orders through the storage interface: createOrder and updateOrder calls *)
(* with the records the InsertOrder type admits, one at a time             *)
(***************************************************************************)
\* orders with a delivery date; an empty orderNumber has one generated
OrderInputs ==
    [orderNumber : {"A-1", "A-2", ""}, customerId : {1}, productionUnitId : {1},
     totalAmount : {"0", "5"}, deliveryDate : {DateStr}]

OrderChanges == {[orderNumber |-> "A-1"], [status |-> "ready"], [totalAmount |-> "8"]}

CreateOrder(order) == Serve([st |-> createOrder(Store, order).st])

UpdateOrder(id, updates) == Serve([st |-> updateOrder(Store, id, updates).st])

NextOrderCalls ==
    \/ \E order \in OrderInputs : CreateOrder(order)
    \/ \E id \in PathIds, updates \in OrderChanges : UpdateOrder(id, updates)

SpecOrderCalls == Init /\ [][NextOrderCalls]_vars

(***************************************************************************)
(* Expenses are created while a read of expenses.xlsx may fail             *)
(***************************************************************************)
NextFaults ==
    \/ \E body \in UnitBodies : PostProductionUnit(body)
    \/ \E body \in ExpenseBodies : PostExpense(body)
    \/ \E body \in ExpenseBodies : PostExpenseReadFailed(body)

SpecFaults == Init /\ [][NextFaults]_vars

(***************************************************************************)
(* Two POST /api/expenses requests served concurrently, for units created  *)
(* before them                                                             *)
(***************************************************************************)
NextConcurrent ==
    \/ \E body \in UnitBodies :
           (\A c \in Callers : calls[c].pc = "idle") /\ PostProductionUnit(body)
    \/ \E c \in Callers, body \in ExpenseBodies :
           getProductionUnit(Store, body.productionUnitId).found /\ BeginCreateExpense(c, body)
    \/ \E c \in Callers : ReadExpenses(c)
    \/ \E c \in Callers : WriteExpenses(c)
    \/ \E c \in Callers : GetProductionUnit(c)
    \/ \E c \in Callers : ReadUnits(c)
    \/ \E c \in Callers : WriteUnits(c)

SpecConcurrent == Init /\ [][NextConcurrent]_vars

(***************************************************************************)
(* GST calculations on every amount of whole paise up to MaxPaise          *)
(***************************************************************************)
MaxPaise == 50

InitGST ==
    /\ units = <<>> /\ expenses = <<>> /\ revenues = <<>> /\ inventory = <<>>
    /\ customers = <<>> /\ orders = <<>> /\ salaries = <<>> /\ maintenance = <<>>
    /\ users = <<>>
    /\ calls = [c \in Callers |-> Idle]
    /\ ctr = InitialCounters
    /\ origin = <<>>
    /\ gst \in [amount : 1 .. MaxPaise, rate : GSTRates, fromTotal : {<<>>}, fromBase : {<<>>}]

NextGST == CalculateFromTotal \/ CalculateFromBase

SpecGST == InitGST /\ [][NextGST]_vars

(***************************************************************************)
(* The server: requests are served one at a time.                          *)
(***************************************************************************)
NextInventory ==
    \/ \E body \in InventoryBodies : PostInventory(body)
    \/ \E id \in PathIds, body \in InventoryUpdates : PutInventory(id, body)
    \/ \E id \in PathIds : DeleteInventory(id)

Next ==
    \/ NextCost
    \/ NextOrders
    \/ NextInventory
    \/ NextImport

Spec == Init /\ [][Next]_vars

(***************************************************************************)
(* Creates and deletes, with the process started again between any two of  *)
(* them.                                                                   *)
(***************************************************************************)
\* one well-formed body for each create
Seed ==
    [unit |-> [name |-> "Unit A"],
     expense |-> [productionUnitId |-> 1, amount |-> "5", category |-> "Materials"],
     revenue |-> [productionUnitId |-> 1, amount |-> "4", category |-> "Sales"],
     inventory |-> [name |-> "Thread", unitCost |-> "2"],
     customer |-> [name |-> "Asha"],
     order |-> [orderNumber |-> "A-1", customerId |-> 1, productionUnitId |-> 1,
                totalAmount |-> "5"],
     unbilled |-> [orderNumber |-> "A-2", customerId |-> 1, productionUnitId |-> 1,
                   totalAmount |-> "0"]]

NextIds ==
    \/ PostProductionUnit(Seed.unit)
    \/ PostExpense(Seed.expense)
    \/ PostRevenue(Seed.revenue)
    \/ PostInventory(Seed.inventory)
    \/ PostCustomer(Seed.customer)
    \/ PostOrder(Seed.order)
    \/ PostOrder(Seed.unbilled)
    \/ \E id \in PathIds : DeleteProductionUnit(id)
    \/ \E id \in PathIds : DeleteExpense(id)
    \/ \E id \in PathIds : DeleteRevenue(id)
    \/ \E id \in PathIds : DeleteInventory(id)
    \/ \E id \in PathIds : DeleteCustomer(id)
    \/ \E id \in PathIds : DeleteOrder(id)
    \/ Restart

SpecIds == Init /\ [][NextIds]_vars

(***************************************************************************)
(* Properties                                                              *)
(***************************************************************************)
UnitStored(id) == \E j \in 1 .. Len(units) : units[j][1] = toString(id)

Files(st) ==
    <<st.units, st.expenses, st.revenues, st.inventory, st.customers, st.orders,
      st.salaries, st.maintenance, st.users>>

\* C1: createExpense(e), when a production unit with id e.productionUnitId is
\* stored, appends exactly one expense record (the rows before it stay as they
\* are) and increases that unit's costToDate by exactly e.amount; the row of
\* every other production unit is unchanged, and the request is answered 201.
C1_CreateExpenseAccrues ==
    \A body \in ExpenseBodies :
        (/\ safeParse(body, ExpenseRequired)
         /\ UnitStored(body.productionUnitId)
         /\ WithinBounds(postExpense(Store, body).st)) =>
            LET res == postExpense(Store, body)
                n == Len(expenses)
            IN  /\ res.status = 201
                /\ Len(res.st.expenses) = n + 1
                /\ SubSeq(res.st.expenses, 1, n) = expenses
                /\ res.st.expenses[n + 1] = <<toString(res.id), toString(body.productionUnitId),
                                              body.amount, body.category>>
                /\ Len(res.st.units) = Len(units)
                /\ \A j \in 1 .. Len(units) :
                       IF units[j][1] = toString(body.productionUnitId)
                       THEN /\ res.st.units[j][1] = units[j][1]
                            /\ res.st.units[j][2] = units[j][2]
                            /\ parseFloat(res.st.units[j][3])
                                   = parseFloat(units[j][3]) + parseFloat(body.amount)
                       ELSE res.st.units[j] = units[j]

\* an expense of 5 is stored for a unit whose costToDate is 5, beside a unit of cost 0
C1_Witness ==
    \E i, j \in 1 .. Len(units), k \in 1 .. Len(expenses) :
        /\ i # j
        /\ units[i][3] = "5"
        /\ units[j][3] = "0"
        /\ expenses[k][2] = units[i][1]
        /\ expenses[k][3] = "5"

HasOrders(id) == \E i \in 1 .. Len(orders) : orders[i][3] = toString(id)

\* C2: deleteCustomer(id) fails whenever at least one stored order has
\* customerId = id: it returns false, the stored customers are unchanged, and
\* DELETE /api/customers/:id answers 404.
C2_DeleteCustomerWithOrdersFails ==
    \A id \in PathIds :
        HasOrders(id) =>
            /\ ~deleteCustomer(Store, id).found
            /\ deleteCustomer(Store, id).st.customers = customers
            /\ delCustomer(Store, id).status = 404
            /\ delCustomer(Store, id).st.customers = customers

\* a stored customer has a stored order
C2_Witness ==
    \E i \in 1 .. Len(orders), j \in 1 .. Len(customers) : orders[i][3] = customers[j][1]

\* the columns an import of a type cannot do without
RequiredColumns ==
    [production_units |-> {"name", "location", "status"},
     expenses |-> {"productionUnitId", "description", "amount", "category"},
     revenues |-> {"productionUnitId", "description", "amount", "category"},
     inventory |-> {"name", "quantity", "unitCost"}]

LacksColumn(u) ==
    /\ u.type \in ImportTypes
    /\ \E f \in RequiredColumns[u.type] :
           \A i \in 1 .. Len(u.file[1]) : u.file[1][i] # f

\* C3: importFromExcel(file, type) rejects a file whose header row lacks a
\* column required for that type: it throws (POST /api/import answers 500), and
\* no record of any entity is created or changed.
C3_ImportRejectsMissingColumns ==
    \A u \in Uploads :
        LacksColumn(u) =>
            /\ importFromExcel(Store, u.file, u.type).threw
            /\ Files(importFromExcel(Store, u.file, u.type).st) = Files(Store)
            /\ postImport(Store, u.file, u.type).status = 500

\* records are stored, an upload with all its columns would be imported, and an
\* upload of the same type that lacks a column is not
C3_Witness ==
    /\ expenses # <<>>
    /\ \E u, v \in Uploads :
           /\ u.type = "expenses" /\ v.type = "expenses"
           /\ LacksColumn(u)
           /\ postImport(Store, u.file, u.type).status = 500
           /\ postImport(Store, v.file, v.type).status = 200
           /\ Len(postImport(Store, v.file, v.type).st.expenses) = Len(expenses) + 1

NoSharedId(file) == \A i, j \in 1 .. Len(file) : i # j => file[i][1] # file[j][1]

\* a create that is answered 201 has assigned an id above every id of the file
AssignsFreshId(res, file) ==
    res.status = 201 => \A i \in 1 .. Len(file) : res.id > parseInt(file[i][1])

\* C4: identifiers are auto-incrementing per entity: every create assigns an id
\* strictly greater than every id currently stored for that entity, so after
\* any sequence of creates and deletes run one at a time, with the process
\* started again (counters back to 1) between any two of them, no two stored
\* records of the same entity share an id.
C4_IdsAreFresh ==
    /\ NoSharedId(units) /\ NoSharedId(expenses) /\ NoSharedId(revenues)
    /\ NoSharedId(inventory) /\ NoSharedId(customers) /\ NoSharedId(orders)
    /\ AssignsFreshId(postProductionUnit(Store, Seed.unit), units)
    /\ AssignsFreshId(postExpense(Store, Seed.expense), expenses)
    /\ AssignsFreshId(postRevenue(Store, Seed.revenue), revenues)
    /\ AssignsFreshId(postInventory(Store, Seed.inventory), inventory)
    /\ AssignsFreshId(postCustomer(Store, Seed.customer), customers)
    /\ AssignsFreshId(postOrder(Store, Seed.order), orders)
    /\ AssignsFreshId(postOrder(Store, Seed.unbilled), orders)

\* the process was started again while unit 2 is stored and unit 1 is deleted:
\* the counter is 1 and the next create is given id 3
C4_Witness ==
    /\ ctr.unit = 1
    /\ Len(units) = 1
    /\ units[1][1] = "2"
    /\ postProductionUnit(Store, Seed.unit).status = 201
    /\ postProductionUnit(Store, Seed.unit).id = 3

Rejected(res) == res.status = 400 /\ res.st = Store

\* C5: a POST or PUT request whose body fails schema validation is answered
\* with status 400 and causes no storage mutation: no record is created or
\* changed and no id counter advances (the store the handler leaves is the
\* store it found).
C5_InvalidBodyRejected ==
    /\ \A body \in UnitBodies :
           ~safeParse(body, UnitRequired) => Rejected(postProductionUnit(Store, body))
    /\ \A body \in ExpenseBodies :
           ~safeParse(body, ExpenseRequired) => Rejected(postExpense(Store, body))
    /\ \A body \in RevenueBodies :
           ~safeParse(body, RevenueRequired) => Rejected(postRevenue(Store, body))
    /\ \A body \in InventoryBodies :
           ~safeParse(body, InventoryRequired) => Rejected(postInventory(Store, body))
    /\ \A body \in CustomerBodies :
           ~safeParse(body, CustomerRequired) => Rejected(postCustomer(Store, body))
    /\ \A body \in OrderBodies :
           ~safeParse(body, OrderRequired) => Rejected(postOrder(Store, body))
    /\ \A id \in PathIds :
           /\ \A body \in UnitUpdates :
                  ~safeParsePartial(body) => Rejected(putProductionUnit(Store, id, body))
           /\ \A body \in ExpenseUpdates :
                  ~safeParsePartial(body) => Rejected(putExpense(Store, id, body))
           /\ \A body \in RevenueUpdates :
                  ~safeParsePartial(body) => Rejected(putRevenue(Store, id, body))
           /\ \A body \in InventoryUpdates :
                  ~safeParsePartial(body) => Rejected(putInventory(Store, id, body))
           /\ \A body \in CustomerUpdates :
                  ~safeParsePartial(body) => Rejected(putCustomer(Store, id, body))
           /\ \A body \in OrderUpdates :
                  ~safeParsePartial(body) => Rejected(putOrder(Store, id, body))

\* expense 1 is stored, and a PUT to it with an amount of the wrong type, as a POST
\* without a category, is answered 400
C5_Witness ==
    /\ \E k \in 1 .. Len(expenses) : expenses[k][1] = "1"
    /\ putExpense(Store, 1, [amount |-> Bad]).status = 400
    /\ postExpense(Store, [productionUnitId |-> 1, amount |-> "5"]).status = 400

Entities == {"units", "expenses", "revenues", "inventory", "customers", "orders"}

\* DELETE /api/<entity>/:id
DeleteOf(e, st, id) ==
    CASE e = "units" -> delProductionUnit(st, id)
      [] e = "expenses" -> delExpense(st, id)
      [] e = "revenues" -> delRevenue(st, id)
      [] e = "inventory" -> delInventory(st, id)
      [] e = "customers" -> delCustomer(st, id)
      [] e = "orders" -> delOrder(st, id)

\* PUT /api/<entity>/:id
PutOf(e, st, id, body) ==
    CASE e = "units" -> putProductionUnit(st, id, body)
      [] e = "expenses" -> putExpense(st, id, body)
      [] e = "revenues" -> putRevenue(st, id, body)
      [] e = "inventory" -> putInventory(st, id, body)
      [] e = "customers" -> putCustomer(st, id, body)
      [] e = "orders" -> putOrder(st, id, body)

\* the well-formed update bodies of an entity
UpdatesOf(e) ==
    LET all == CASE e = "units" -> UnitUpdates
                 [] e = "expenses" -> ExpenseUpdates
                 [] e = "revenues" -> RevenueUpdates
                 [] e = "inventory" -> InventoryUpdates
                 [] e = "customers" -> CustomerUpdates
                 [] e = "orders" -> OrderUpdates
    IN  {body \in all : safeParsePartial(body)}

\* the records of an entity as a read returns them
ReadOf(e, st) ==
    CASE e = "units" -> readProductionUnitsFromExcel(st).ret
      [] e = "expenses" -> readExpensesFromExcel(st).ret
      [] e = "revenues" -> readRevenuesFromExcel(st).ret
      [] e = "inventory" -> readInventoryFromExcel(st).ret
      [] e = "customers" -> readCustomersFromExcel(st).ret
      [] e = "orders" -> readOrdersFromExcel(st).ret

StoredIn(file, id) == \E i \in 1 .. Len(file) : file[i][1] = toString(id)

OtherRows(file, id) == SelectSeq(file, LAMBDA row : row[1] # toString(id))

\* C6: for every entity, an update or delete addressed to an id that is not
\* stored answers 404 and writes nothing (the files of every entity are as
\* before); a delete of a stored id answers 204 and removes exactly that
\* record: the file holds the other rows, as they were and in their order.
C6_NotFoundAndDeleteFrame ==
    \A e \in Entities, id \in PathIds :
        IF StoredIn(Store[e], id)
        THEN /\ DeleteOf(e, Store, id).status = 204
             /\ DeleteOf(e, Store, id).st[e] = OtherRows(Store[e], id)
        ELSE /\ DeleteOf(e, Store, id).status = 404
             /\ Files(DeleteOf(e, Store, id).st) = Files(Store)
             /\ \A body \in UpdatesOf(e) :
                    /\ PutOf(e, Store, id, body).status = 404
                    /\ Files(PutOf(e, Store, id, body).st) = Files(Store)

\* C7: every mutation rewrites the whole file of its entity from the records
\* just read: after updateX(id, updates) on a stored id, the record with that
\* id equals the old record overlaid with updates, and every other record of
\* that entity is stored with the same field values and in the same order.
C7_UpdateOverlaysAndKeepsOthers ==
    \A e \in Entities, id \in PathIds :
        StoredIn(Store[e], id) =>
            \A body \in UpdatesOf(e) :
                LET res == PutOf(e, Store, id, body)
                    old == ReadOf(e, Store)
                    new == ReadOf(e, res.st)
                    i == FindIndex(old, id, 1)
                IN  WithinBounds(res.st) =>
                        /\ res.status = 200
                        /\ Len(new) = Len(old)
                        /\ new[i] = Overlay(old[i], body)
                        /\ \A j \in 1 .. Len(old) :
                               j # i => new[j] = old[j] /\ res.st[e][j] = Store[e][j]

\* C8: createOrder creates a corresponding revenue entry if and only if the new
\* order's totalAmount is greater than 0 and its status is not "draft"; that
\* revenue has amount = the order's totalAmount, the order's productionUnitId,
\* category "Stitching" and orderId = the new order's id; otherwise the stored
\* revenues are unchanged.
C8_CreateOrderRevenue ==
    \A body \in OrderBodies :
        LET res == postOrder(Store, body)
            old == readRevenuesFromExcel(Store).ret
            new == readRevenuesFromExcel(res.st).ret
            status == IF "status" \in DOMAIN body THEN body.status ELSE "pending"
        IN  (safeParse(body, OrderRequired) /\ res.status = 201) =>
                IF parseFloat(body.totalAmount) > 0 /\ status # "draft"
                THEN /\ Len(new) = Len(old) + 1
                     /\ SubSeq(new, 1, Len(old)) = old
                     /\ new[Len(new)].amount = body.totalAmount
                     /\ new[Len(new)].productionUnitId = body.productionUnitId
                     /\ new[Len(new)].category = "Stitching"
                     /\ "orderId" \in DOMAIN new[Len(new)]
                     /\ new[Len(new)].orderId = res.id
                ELSE res.st.revenues = revenues

\* the revenue entries that createRevenue was given order id as their orderId
RevenuesOf(st, id) == {k \in 1 .. Len(st.origin) : st.origin[k] = id}

\* C9: when updateOrder changes the totalAmount or status of an order that
\* already has a revenue entry, it updates that existing revenue entry (its
\* amount becomes the order's new totalAmount) and creates no new one: every
\* order has at most one revenue entry.
C9_UpdateOrderUpdatesRevenue ==
    \A id \in PathIds :
        /\ Cardinality(RevenuesOf(Store, id)) <= 1
        /\ (StoredIn(orders, id) /\ RevenuesOf(Store, id) # {}) =>
               \A body \in UpdatesOf("orders") :
                   LET res == putOrder(Store, id, body)
                   IN  /\ Len(res.st.revenues) = Len(revenues)
                       /\ Cardinality(RevenuesOf(res.st, id)) = 1
                       /\ \A k \in RevenuesOf(res.st, id) :
                              res.st.revenues[k][3]
                                  = IF "totalAmount" \in DOMAIN body THEN body.totalAmount
                                    ELSE revenues[k][3]

RECURSIVE SumOf(_, _)
\* the sum of the amounts of the revenue rows picked by a set of indexes
SumOf(file, ks) ==
    IF ks = {} THEN 0
    ELSE LET k == CHOOSE x \in ks : TRUE
         IN  parseFloat(file[k][3]) + SumOf(file, ks \ {k})

\* C10: deleteOrder(id) on a stored order removes the order and also removes
\* the revenue entry that was created for that order: after it returns true
\* (204), no stored revenue entry originates from order id and the total
\* revenue of the dashboard no longer includes that order's amount.
C10_DeleteOrderRemovesRevenue ==
    \A id \in PathIds :
        StoredIn(orders, id) =>
            LET res == delOrder(Store, id)
            IN  res.status = 204 =>
                    /\ ~StoredIn(res.st.orders, id)
                    /\ RevenuesOf(res.st, id) = {}
                    /\ totalRevenue(res.st)
                           = totalRevenue(Store) - SumOf(revenues, RevenuesOf(Store, id))

\* what createSalaryPayment and createMaintenanceRecord are to leave behind:
\* for a positive amount one more expense <<id, unitId, amount, category>> after
\* the stored ones and the unit's costToDate raised by the amount, every other
\* unit as it was; for any other amount the expenses and units as they were
AccruesOnce(res, unitId, amount, category) ==
    LET n == Len(expenses)
    IN  IF parseFloat(amount) > 0
        THEN /\ Len(res.st.expenses) = n + 1
             /\ SubSeq(res.st.expenses, 1, n) = expenses
             /\ SubSeq(res.st.expenses[n + 1], 2, 4) = <<toString(unitId), amount, category>>
             /\ Len(res.st.units) = Len(units)
             /\ \A j \in 1 .. Len(units) :
                    IF units[j][1] = toString(unitId)
                    THEN /\ res.st.units[j][1] = units[j][1]
                         /\ res.st.units[j][2] = units[j][2]
                         /\ parseFloat(res.st.units[j][3])
                                = parseFloat(units[j][3]) + parseFloat(amount)
                    ELSE res.st.units[j] = units[j]
        ELSE res.st.expenses = expenses /\ res.st.units = units

\* C11: a createSalaryPayment with amount > 0 and a createMaintenanceRecord with
\* cost > 0 that return (the request is answered 201) each create exactly one
\* expense, of category "Salary" resp. "Maintenance", with the same
\* productionUnitId and the amount resp. cost, and raise that unit's costToDate
\* by it; with an amount or cost of 0 no expense is created and every
\* costToDate is unchanged.
C11_PayrollCreatesExpense ==
    /\ \A body \in SalaryBodies :
           LET res == postSalaryPayment(Store, body)
           IN  (safeParse(body, SalaryRequired) /\ res.status = 201 /\ WithinBounds(res.st))
                   => AccruesOnce(res, body.productionUnitId, body.amount, "Salary")
    /\ \A body \in MaintenanceBodies :
           LET res == postMaintenanceRecord(Store, body)
           IN  (safeParse(body, MaintenanceRequired) /\ res.status = 201
                    /\ WithinBounds(res.st))
                   => AccruesOnce(res, body.productionUnitId, body.cost, "Maintenance")

\* a payment of 3 and a maintenance of 2 are stored with their expenses, and the
\* cost of unit 1 is 5; a payment of 0 is stored as well, without an expense
C11_Witness ==
    /\ Len(expenses) = 2
    /\ \E k \in 1 .. 2 : SubSeq(expenses[k], 2, 4) = <<"1", "3", "Salary">>
    /\ \E k \in 1 .. 2 : SubSeq(expenses[k], 2, 4) = <<"1", "2", "Maintenance">>
    /\ \E j \in 1 .. Len(units) : units[j][1] = "1" /\ units[j][3] = "5"
    /\ \E i \in 1 .. Len(salaries) : salaries[i][5] = "0"
    /\ Len(maintenance) = 1

\* every file but the one named, and every costToDate
OtherFiles(st, own) == [f \in {"units", "expenses", "salaries", "maintenance"} \ {own} |-> st[f]]

\* C12: updateSalaryPayment, deleteSalaryPayment, updateMaintenanceRecord and
\* deleteMaintenanceRecord change only the file of their own entity: the stored
\* expenses and every production unit's costToDate are as before, whatever the
\* id and the update.
C12_PayrollUpdatesKeepExpenses ==
    \A id \in PathIds :
        /\ OtherFiles(delSalaryPayment(Store, id).st, "salaries") = OtherFiles(Store, "salaries")
        /\ OtherFiles(delMaintenanceRecord(Store, id).st, "maintenance")
               = OtherFiles(Store, "maintenance")
        /\ \A body \in SalaryUpdates :
               OtherFiles(putSalaryPayment(Store, id, body).st, "salaries")
                   = OtherFiles(Store, "salaries")
        /\ \A body \in MaintenanceUpdates :
               OtherFiles(putMaintenanceRecord(Store, id, body).st, "maintenance")
                   = OtherFiles(Store, "maintenance")

\* the payment of 3 was raised to 5 and the maintenance record of 2 was deleted:
\* their expenses of 3 and 2 are stored and the cost of unit 1 is still 5
C12_Witness ==
    /\ \E i \in 1 .. Len(salaries) : salaries[i][5] = "5"
    /\ maintenance = <<>>
    /\ Len(expenses) = 2
    /\ \E k \in 1 .. 2 : SubSeq(expenses[k], 2, 4) = <<"1", "3", "Salary">>
    /\ \E k \in 1 .. 2 : SubSeq(expenses[k], 2, 4) = <<"1", "2", "Maintenance">>
    /\ \E j \in 1 .. Len(units) : units[j][1] = "1" /\ units[j][3] = "5"


\* updates of an expense: of its amount (to another and to the same value), of
\* its unit, and of both
AmountUpdates ==
    ExpenseUpdates \cup {[amount |-> "3"], [amount |-> "5"],
                         [amount |-> "3", productionUnitId |-> 2]}

\* C13: updateExpense(id, updates) on a stored expense whose linked unit is
\* stored changes that unit's costToDate by exactly (new amount - old amount)
\* when updates.amount is present and differs from the stored amount, every
\* other unit staying as it was, and leaves every unit's costToDate unchanged
\* when updates carries no amount or the same amount.
C13_UpdateExpenseAdjustsCost ==
    \A id \in PathIds, body \in AmountUpdates :
        LET res == putExpense(Store, id, body)
            old == readExpensesFromExcel(Store).ret
            i == FindIndex(old, id, 1)
        IN  (/\ safeParsePartial(body)
             /\ i # 0
             /\ UnitStored(old[i].productionUnitId)
             /\ WithinBounds(res.st)) =>
                /\ res.status = 200
                /\ Len(res.st.units) = Len(units)
                /\ \A j \in 1 .. Len(units) :
                       IF /\ "amount" \in DOMAIN body
                          /\ body.amount # old[i].amount
                          /\ units[j][1] = toString(old[i].productionUnitId)
                       THEN /\ res.st.units[j][1] = units[j][1]
                            /\ res.st.units[j][2] = units[j][2]
                            /\ parseFloat(res.st.units[j][3])
                                   = parseFloat(units[j][3]) + parseFloat(body.amount)
                                         - parseFloat(old[i].amount)
                       ELSE res.st.units[j] = units[j]

\* expense 1, created with amount 5 for unit 1, was updated to amount 8 and the
\* cost of unit 1 went from 5 to 8, beside a second unit of cost 0
C13_Witness ==
    /\ \E k \in 1 .. Len(expenses) : expenses[k] = <<"1", "1", "8", "Materials">>
    /\ Len(expenses) = 1
    /\ \E j \in 1 .. Len(units) : units[j][1] = "1" /\ units[j][3] = "8"
    /\ \E j \in 1 .. Len(units) : units[j][1] = "2" /\ units[j][3] = "0"


C15_CostAccrualInvariant ==
    \A j \in 1 .. Len(units) :
        parseFloat(units[j][3])
            = SumOf(expenses, {k \in 1 .. Len(expenses) : expenses[k][2] = units[j][1]})


Usernames(file) == {file[i][2] : i \in 1 .. Len(file)}

NoSharedUsername(file) == \A i, j \in 1 .. Len(file) : file[i][2] = file[j][2] => i = j

\* C16: createUser is idempotent on username: when a user with the given
\* username is stored it returns that stored user and writes nothing (the file
\* is as before), and otherwise it stores the given user; so after any sequence
\* of createUser calls no two stored users share a username, and once the file
\* holds a row the default "admin" user is stored exactly once.
C16_CreateUserIdempotent ==
    /\ NoSharedUsername(users)
    /\ users # <<>> => Cardinality({i \in 1 .. Len(users) : users[i][2] = "admin"}) = 1
    /\ \A user \in UserInputs :
           LET res == createUser(Store, user)
               again == createUser(res.st, user)
           IN  /\ user.username \in Usernames(users) =>
                      /\ res.st.users = users
                      /\ userToRow(res.ret) \in {users[i] : i \in 1 .. Len(users)}
                      /\ res.ret.username = user.username
               /\ user.username \in Usernames(res.st.users)
               /\ again.st.users = res.st.users
               /\ again.ret = rowToUser(userToRow(res.ret))

\* bina was created with password pw1 and a later createUser of bina with
\* another password left the stored user as it was, beside admin and chand
C16_Witness ==
    /\ Len(users) = 3
    /\ \E i \in 1 .. 3 : users[i][2] = "admin"
    /\ \E i \in 1 .. 3 : users[i][2] = "bina" /\ users[i][3] = "pw1"
    /\ \E i \in 1 .. 3 : users[i][2] = "chand"
    /\ createUser(Store, [username |-> "bina", password |-> "pw2", name |-> "C",
                          role |-> "staff"]).st.users = users


\* C17: order numbers are unique: after any sequence of createOrder and
\* updateOrder calls, with order numbers supplied by the caller or generated as
\* ORD-<year>-<4-digit id>, no two stored orders have the same orderNumber.
C17_OrderNumbersUnique ==
    \A i, j \in 1 .. Len(orders) : orders[i][2] = orders[j][2] => i = j


\* the expenses a createExpense leaves are the ones stored before plus the new one
KeepsAndAdds(res) ==
    /\ Len(res.st.expenses) = Len(expenses) + 1
    /\ SubSeq(res.st.expenses, 1, Len(expenses)) = expenses
    /\ res.st.expenses[Len(expenses) + 1][1] = toString(res.id)

\* C18: a create operation never loses previously stored records: after
\* createExpense the stored expenses are the expenses stored before plus the
\* new one, also when the read step of the operation fails.
C18_CreateKeepsRecords ==
    \A body \in ExpenseBodies :
        safeParse(body, ExpenseRequired) =>
            /\ KeepsAndAdds(postExpense(Store, body))
            /\ KeepsAndAdds(postExpenseReadFailed(Store, body))


ExpenseStored(id) == \E k \in 1 .. Len(expenses) : expenses[k][1] = toString(id)

\* C19: two createExpense requests for the same production unit that
\* interleave at their await points are both fully applied: once both have
\* completed, both expenses are stored, with distinct ids, and the unit's
\* costToDate (0 before the two requests) is the sum of the two amounts.
C19_ConcurrentCreatesBothApplied ==
    (/\ \A c \in Callers : calls[c].pc = "done"
     /\ calls[1].expense.productionUnitId = calls[2].expense.productionUnitId) =>
        /\ calls[1].id # calls[2].id
        /\ ExpenseStored(calls[1].id)
        /\ ExpenseStored(calls[2].id)
        /\ \A j \in 1 .. Len(units) :
               units[j][1] = toString(calls[1].expense.productionUnitId) =>
                   parseFloat(units[j][3])
                       = parseFloat(calls[1].expense.amount) + parseFloat(calls[2].expense.amount)


\* C20: for every GST-inclusive total in whole paise and every rate in
\* {0, 5, 12, 18, 28}, the two-decimal base and GST computed from the total add
\* up to the total; the total computed from a base is the base plus the GST
\* computed from it; with rate 0 the GST is 0 and the base equals the total.
C20_GSTPartsAddUp ==
    /\ gst.fromTotal # <<>> =>
           /\ gst.fromTotal[1] + gst.fromTotal[2] = gst.amount
           /\ gst.rate = 0 => gst.fromTotal = <<gst.amount, 0>>
    /\ gst.fromBase # <<>> =>
           /\ gst.fromBase[2] = gst.amount + gst.fromBase[1]
           /\ gst.rate = 0 => gst.fromBase[1] = 0


====
